---------------------------- MODULE Spec2Model ----------------------------
(***************************************************************************)
(* UMFPACK symbolic analysis (UMFPACK/Source/umfpack_qsymbolic.c):         *)
(* one call of symbolic_analysis, entered through UMFPACK_qsymbolic,       *)
(* UMFPACK_fsymbolic or UMFPACK_paru_symbolic, as a state machine whose    *)
(* program counter pc walks the stages of the routine in source order.     *)
(*                                                                         *)
(* Arrays are functions on 0..n-1 (the C indices).  A sparse matrix in     *)
(* compressed-column form with sorted, duplicate-free columns is the set   *)
(* of its entries <<row, col>>; Ap[j+1]-Ap[j] is the size of column j.     *)
(* Caller memory (Control[], Quser[], Ap/Ai/Ax) is drawn by the stage      *)
(* that first reads it.  Collaborators whose code is outside this file     *)
(* (AMD_2, UMF_colamd, UMF_cholmod, the user callback, UMF_analyze,        *)
(* UMF_malloc) are nondeterministic within the ranges this file asserts.   *)
(***************************************************************************)
EXTENDS Integers, Sequences, FiniteSets, TLC

(* ------------------------------ bounds --------------------------------- *)
\* largest n_row and n_col of a call
MaxN == 2

(* ----------------------------- constants ------------------------------- *)
EMPTY == -1

Status == {"OK", "argument_missing", "n_nonpositive", "invalid_matrix",
           "invalid_permutation", "out_of_memory", "ordering_failed",
           "internal_error"}

\* values of Control [UMFPACK_STRATEGY]; OBSOLETE stands for every value the
\* code does not recognize
StrategyInputs == {"AUTO", "UNSYMMETRIC", "OBSOLETE", "SYMMETRIC"}

\* values of Control [UMFPACK_ORDERING]; "other" is any number out of range
Orderings == {"CHOLMOD", "AMD", "GIVEN", "METIS", "BEST", "NONE", "USER",
              "METIS_GUARD"}
OrderingInputs == Orderings \cup {"other"}

(* ------------------------------ helpers -------------------------------- *)
Min(S) == CHOOSE x \in S : \A y \in S : x <= y
Max(S) == CHOOSE x \in S : \A y \in S : x >= y
MIN(a, b) == IF a < b THEN a ELSE b
MAX(a, b) == IF a > b THEN a ELSE b
Range(f) == {f[k] : k \in DOMAIN f}
Idx(n) == 0 .. (n - 1)
\* all arrays of length n over the values V
Arrays(n, V) == [Idx(n) -> V]
\* all permutations of 0..n-1, as arrays
Perms(n) == {f \in Arrays(n, Idx(n)) : Range(f) = Idx(n)}
\* P[0..n-1] holds every value of 0..n-1
IsPermutation(P, n) == /\ Idx(n) \subseteq DOMAIN P
                       /\ {P[k] : k \in Idx(n)} = Idx(n)
\* all sparsity patterns of an m-by-n matrix
Patterns(m, n) == SUBSET (Idx(m) \X Idx(n))
\* the rows of column j, i.e. Ai [Ap [j] .. Ap [j+1]-1]
Column(M, j) == {e[1] : e \in {x \in M : x[2] = j}}
Row(M, i) == {e[2] : e \in {x \in M : x[1] = i}}

(* ---------------------------- the state -------------------------------- *)
VARIABLES
    pc,              \* the stage of symbolic_analysis about to run
    for_Paru,        \* the argument for_Paru: the call came from umfpack_*_paru_symbolic
    Quser_null,      \* Quser == NULL
    Quser,           \* the caller's array Quser [0..n_col-1], read at the check
    user_ordering,   \* TRUE iff a callback was passed
    SW_Handle,       \* "NULLPTR" if the handle is NULL, else what it points to
    SymbolicHandle,  \* "NULLPTR" if the handle is NULL, else what it points to
    Ap_null,         \* Ap == NULL
    Ai_null,         \* Ai == NULL
    n_row,
    n_col,
    nz,              \* Ap [n_col] as read: EMPTY stands for any negative value
    nz_read,         \* TRUE once Ap [n_col] has been read
    A,               \* the pattern of the matrix, read by the singleton stage
    Ax_null,         \* Ax == NULL
    Ax,              \* the entries of A whose numerical value is nonzero
    Info,            \* the Info array (the slots this model tracks)
    ret,             \* "running", or the status returned
    strategy_req,    \* Control [UMFPACK_STRATEGY] as given
    strategy,        \* local strategy
    user_auto_strategy,
    ordering_option, \* local ordering_option
    tsym,            \* local tsym of the auto selection, in tenths
    tnzd,            \* local tnzd of the auto selection, in tenths
    n1,              \* number of singletons
    Cperm1,          \* singleton column ordering
    Rperm1,          \* singleton row ordering
    nempty_col,
    nempty_row,
    is_sym,
    max_rdeg,
    dense_row_threshold,
    sym,             \* <<numerator, denominator>> of sym, <<EMPTY, 1>> if not computed
    nzdiag,
    fixQ,
    prefer_diagonal,
    Cperm_init,      \* Symbolic->Cperm_init [0..n_col-1]
    Rperm_init,      \* Symbolic->Rperm_init [0..n_row-1]
    do_UMF_analyze,
    Fr,              \* nfr, Fr_npivcol and Fr_parent of the workspace
    InFront,
    Front_1strow,    \* Symbolic->Front_1strow [0..nfr]
    Diagonal_map,    \* Symbolic->Diagonal_map [0..nn-1], <<>> if absent
    calls,           \* the ordering routines invoked so far, in order, with their output
    Symbolic,        \* the local pointer Symbolic and scalar fields of *Symbolic
    SW,              \* "NULL" or "SW": the local pointer to the workspace header
    ptr,             \* the non-NULL array pointers held in *Symbolic and *SW
    heap,            \* blocks UMF_malloc handed out and UMF_free has not taken back
    nb,              \* local nb: the block size, even and at least 2
    Fr_nrows,        \* SW->Front_nrows [0..nfr-1]
    Fr_ncols,        \* SW->Front_ncols [0..nfr-1]
    Cdeg,            \* Symbolic->Cdeg [0..n_col-1]
    Rdeg,            \* Symbolic->Rdeg [0..n_row-1]
    Esize,           \* Symbolic->Esize [0..esize-1], <<>> if NULL
    Chain_start,     \* Symbolic->Chain_start, as far as it is written
    Chain_maxrows,   \* Symbolic->Chain_maxrows, as far as it is written
    Chain_maxcols,   \* Symbolic->Chain_maxcols, as far as it is written
    maxnrows,        \* Symbolic->maxnrows
    maxncols,        \* Symbolic->maxncols
    usage,           \* locals head_usage, tail_usage, dhead_usage, dtail_usage, dmax_usage
    dlnz,            \* local dlnz: nz in L, diagonal included
    dunz,            \* local dunz: nz in U, diagonal included
    est,             \* num_mem_init_usage, num_mem_size_est, num_mem_usage_est, lunz_bound
    dClen,           \* local dClen, in fifths; 0 before it is computed
    Clen,            \* local Clen; 0 before it is computed
    Q1,              \* the Cperm_init of an earlier call that the caller
                     \* passes as Quser; <<>> if there is none
    Front_leftmostdesc, \* Symbolic->Front_leftmostdesc [0..nfr], <<>> before
                     \* it is written
    walk,            \* locals i and j of the walk of lines 2190-2202
    NumericHandle,   \* "NULLPTR" if the handle is NULL, else what it points to
    freed            \* the calls of the release routines made by the caller,
                     \* each with the pointers it passed to UMF_free

argv == <<for_Paru, Quser_null, Quser, user_ordering, Ap_null, Ai_null, n_row, n_col,
          nz, A, Ax_null, Ax, strategy_req>>
outv == <<SW_Handle, SymbolicHandle, Info, ret>>
ctlv == <<strategy, user_auto_strategy, ordering_option>>
sglv == <<n1, Cperm1, Rperm1, nempty_col, nempty_row, is_sym, max_rdeg,
          dense_row_threshold>>
strv == <<sym, nzdiag, fixQ, prefer_diagonal, tsym, tnzd>>
ordv == <<Cperm_init, do_UMF_analyze, Fr, InFront, calls>>
finv == <<Rperm_init, Front_1strow, Diagonal_map>>
memv == <<Symbolic, SW, ptr, heap>>
chnv == <<Chain_start, Chain_maxrows, Chain_maxcols, maxnrows, maxncols>>
clenv == <<dClen, Clen>>
lmdv == <<Front_leftmostdesc, walk>>
relv == <<NumericHandle, freed>>
simv == <<nb, Fr_nrows, Fr_ncols, Cdeg, Rdeg, Esize, chnv, usage, dlnz, dunz, est,
          clenv, Q1, lmdv, relv>>
vars == <<pc, argv, outv, ctlv, sglv, strv, ordv, finv, memv, nz_read, simv>>

\* Info before the call: whatever the caller left there
InfoStale == [STATUS |-> "stale", STRATEGY_USED |-> "stale",
              ORDERING_USED |-> "stale", NZDIAG |-> EMPTY, N2 |-> EMPTY]
\* lines 785-802: every slot EMPTY, then the status set to OK
InfoCleared == [STATUS |-> "OK", STRATEGY_USED |-> "EMPTY",
                ORDERING_USED |-> "EMPTY", NZDIAG |-> EMPTY, N2 |-> EMPTY]

\* the local Symbolic before the header is allocated, and after it is freed
SymbolicNull == [alloc |-> FALSE, valid |-> FALSE, ordering |-> "EMPTY",
                 strategy |-> "EMPTY"]
\* lines 923-948: a fresh header
SymbolicHeader == [alloc |-> TRUE, valid |-> FALSE, ordering |-> "EMPTY",
                   strategy |-> "EMPTY"]

\* no fronts yet
NoFronts == [nfr |-> 0, npivcol |-> <<>>, parent |-> <<>>]

\* the usage counters and the estimates of the Symbolic object before they are
\* computed
NoUsage == [head |-> 0, tail |-> 0, dhead |-> 0, dtail |-> 0, dmax |-> 0]
NoEstimates == [num_mem_init_usage |-> 0, num_mem_size_est |-> 0,
                num_mem_usage_est |-> 0, lunz_bound |-> 0]

\* the locals i and j before the walk of lines 2190-2202
NoWalk == [i |-> 0, j |-> EMPTY]

\* the variables of lines 2183-2580 before those lines run
NotSimulated ==
    /\ nb = 0
    /\ Fr_nrows = <<>>
    /\ Fr_ncols = <<>>
    /\ Cdeg = <<>>
    /\ Rdeg = <<>>
    /\ Esize = <<>>
    /\ Chain_start = <<>>
    /\ Chain_maxrows = <<>>
    /\ Chain_maxcols = <<>>
    /\ maxnrows = 0
    /\ maxncols = 0
    /\ usage = NoUsage
    /\ dlnz = 0
    /\ dunz = 0
    /\ est = NoEstimates
    /\ dClen = 0
    /\ Clen = 0
    /\ Q1 = <<>>
    /\ Front_leftmostdesc = <<>>
    /\ walk = NoWalk
    /\ NumericHandle = "NULLPTR"
    /\ freed = <<>>

Init ==
    /\ pc = "call"
    /\ NotSimulated
    /\ for_Paru = FALSE
    /\ Quser_null = TRUE
    /\ Quser = <<>>
    /\ user_ordering = FALSE
    /\ SW_Handle = "NULLPTR"
    /\ SymbolicHandle = "NULLPTR"
    /\ Ap_null = FALSE
    /\ Ai_null = FALSE
    /\ n_row = 0
    /\ n_col = 0
    /\ nz = 0
    /\ nz_read = FALSE
    /\ A = {}
    /\ Ax_null = TRUE
    /\ Ax = {}
    /\ Info = InfoStale
    /\ ret = "running"
    /\ strategy_req = "AUTO"
    /\ strategy = "AUTO"
    /\ user_auto_strategy = FALSE
    /\ ordering_option = "AMD"
    /\ tsym = 0
    /\ tnzd = 0
    /\ n1 = 0
    /\ Cperm1 = <<>>
    /\ Rperm1 = <<>>
    /\ nempty_col = 0
    /\ nempty_row = 0
    /\ is_sym = FALSE
    /\ max_rdeg = 0
    /\ dense_row_threshold = 0
    /\ sym = <<EMPTY, 1>>
    /\ nzdiag = EMPTY
    /\ fixQ = FALSE
    /\ prefer_diagonal = FALSE
    /\ Cperm_init = <<>>
    /\ Rperm_init = <<>>
    /\ do_UMF_analyze = FALSE
    /\ Fr = NoFronts
    /\ InFront = <<>>
    /\ Front_1strow = <<>>
    /\ Diagonal_map = <<>>
    /\ calls = <<>>
    /\ Symbolic = SymbolicNull
    /\ SW = "NULL"
    /\ ptr = {}
    /\ heap = {}

(* --------------------------- memory blocks ----------------------------- *)
\* first part of the Symbolic object (lines 950-953)
SymbolicPart1 == {"Symbolic.Cperm_init", "Symbolic.Rperm_init",
                  "Symbolic.Cdeg", "Symbolic.Rdeg"}
\* second part of the Symbolic object (lines 1865-1871)
SymbolicPart2 == {"Symbolic.Front_npivcol", "Symbolic.Front_parent",
                  "Symbolic.Front_1strow", "Symbolic.Front_leftmostdesc",
                  "Symbolic.Chain_start", "Symbolic.Chain_maxrows",
                  "Symbolic.Chain_maxcols"}
SymbolicMembers == SymbolicPart1 \cup SymbolicPart2
                       \cup {"Symbolic.Esize", "Symbolic.Diagonal_map"}
\* workspace freed early (lines 1816-1818)
SWEarly == {"SW.Si", "SW.Sp", "SW.Cperm1"}
\* the twelve arrays of lines 1028-1041
SWArrays == {"SW.Si", "SW.Sp", "SW.InvRperm1", "SW.Cperm1", "SW.Ci",
             "SW.Front_npivcol", "SW.Front_nrows", "SW.Front_ncols",
             "SW.Front_parent", "SW.Front_cols", "SW.Rperm1", "SW.InFront"}
\* the members UMFPACK_paru_free_sw passes to UMF_free
SWMembers == SWArrays \cup {"SW.Rs"}

\* the outcomes of a run of UMF_malloc calls for the blocks bs, as the set of
\* blocks obtained: every call succeeds, one of them fails, or all fail
UMF_malloc(bs) ==
    {bs, {}} \cup (IF bs = {} THEN {} ELSE {bs \ {CHOOSE b \in bs : TRUE}})

\* UMF_free (p) for each p of the set: a NULL pointer is ignored
UMF_free(h, ps) == h \ ps

\* UMFPACK_paru_free_sw, applied to the local SW: frees the members of a
\* non-NULL SW and then its header
UMFPACK_paru_free_sw(h, sw, p) ==
    IF sw = "NULL" THEN h
    ELSE UMF_free(UMF_free(h, p \cap SWMembers), {"SW"})

\* UMFPACK_free_symbolic: frees every non-NULL member and the header
UMFPACK_free_symbolic(h, symb, p) ==
    IF ~symb.alloc THEN h
    ELSE UMF_free(UMF_free(h, p \cap SymbolicMembers), {"Symbolic"})

\* error ( ) without the call that frees the workspace
error_leaks_workspace(h, symb, sw, p) == UMFPACK_free_symbolic(h, symb, p)

\* error (&Symbolic, &SW): free the workspace, then the Symbolic object
error(h, symb, sw, p) ==
    UMFPACK_free_symbolic(UMFPACK_paru_free_sw(h, sw, p), symb, p)

\* the arrays of the workspace and of the Symbolic object once error ( ) has
\* freed them
Released ==
    /\ Cperm1' = <<>>
    /\ Rperm1' = <<>>
    /\ Cperm_init' = <<>>
    /\ Rperm_init' = <<>>
    /\ Fr' = NoFronts
    /\ InFront' = <<>>
    /\ Front_1strow' = <<>>
    /\ Diagonal_map' = <<>>

\* an error return that leaves Info [UMFPACK_STATUS] as it was
ErrorReturn_status_unset(s, h, symb, sw, p) ==
    /\ Info' = Info
    /\ Released
    /\ heap' = error(h, symb, sw, p)
    /\ Symbolic' = SymbolicNull
    /\ SW' = "NULL"
    /\ ptr' = {}
    /\ ret' = s
    /\ pc' = "done"

\* an error return of symbolic_analysis with status s: Info [UMFPACK_STATUS]
\* is set, error ( ) is called with the blocks h and the pointers p as they
\* are at that point, and s is returned
ErrorReturn(s, h, symb, sw, p) ==
    /\ Info' = [Info EXCEPT !.STATUS = s]
    /\ Released
    /\ heap' = error(h, symb, sw, p)
    /\ Symbolic' = SymbolicNull
    /\ SW' = "NULL"
    /\ ptr' = {}
    /\ ret' = s
    /\ pc' = "done"

(* ------------------------- the three wrappers -------------------------- *)
UMFPACK_qsymbolic ==
    /\ pc = "call"
    /\ for_Paru' = FALSE
    /\ Quser_null' \in BOOLEAN
    /\ user_ordering' = FALSE
    /\ pc' = "control"
    /\ UNCHANGED <<Quser, Ap_null, Ai_null, n_row, n_col, nz, A, Ax_null, Ax,
                   strategy_req, outv, ctlv, sglv, strv, ordv,
                   finv, memv, nz_read>>
    /\ UNCHANGED simv

UMFPACK_fsymbolic ==
    /\ pc = "call"
    /\ for_Paru' = FALSE
    /\ Quser_null' = TRUE
    /\ user_ordering' \in BOOLEAN
    /\ pc' = "control"
    /\ UNCHANGED <<Quser, Ap_null, Ai_null, n_row, n_col, nz, A, Ax_null, Ax,
                   strategy_req, outv, ctlv, sglv, strv, ordv,
                   finv, memv, nz_read>>
    /\ UNCHANGED simv

UMFPACK_paru_symbolic ==
    /\ pc = "call"
    /\ for_Paru' = TRUE
    /\ Quser_null' \in BOOLEAN
    /\ user_ordering' \in BOOLEAN
    /\ pc' = "control"
    /\ UNCHANGED <<Quser, Ap_null, Ai_null, n_row, n_col, nz, A, Ax_null, Ax,
                   strategy_req, outv, ctlv, sglv, strv, ordv,
                   finv, memv, nz_read>>
    /\ UNCHANGED simv

(* ------------------- control settings (lines 730-765) ------------------ *)
\* lines 744-765: the ordering option after the clamps; dflt is
\* UMFPACK_DEFAULT_ORDERING
ClampOrdering(opt, dflt, qnull, uo) ==
    LET o1 == IF opt = "other" THEN dflt ELSE opt
    IN  IF qnull
        THEN IF o1 = "GIVEN" \/ (o1 = "USER" /\ ~uo) THEN "NONE" ELSE o1
        ELSE "GIVEN"

GetControl ==
    /\ pc = "control"
    /\ \E opt \in OrderingInputs, st \in StrategyInputs :
        /\ ordering_option' = ClampOrdering(opt, "AMD", Quser_null, user_ordering)
        /\ strategy_req' = st
        /\ strategy' = st
    /\ pc' = "validate"
    /\ UNCHANGED <<for_Paru, Quser_null, Quser, user_ordering, Ap_null, Ai_null,
                   n_row, n_col, nz, A, Ax_null, Ax, outv,
                   user_auto_strategy, sglv, strv, ordv, finv, memv, nz_read>>
    /\ UNCHANGED simv

(* ---------------- argument checks (lines 774-860) ---------------------- *)
\* the clamps without the one for a rectangular matrix
ClampStrategy_keeps_rectangular(st, m, n, qnull) ==
    LET s2 == IF st \notin {"AUTO", "UNSYMMETRIC", "SYMMETRIC"} THEN "AUTO" ELSE st
    IN  IF ~qnull /\ s2 # "SYMMETRIC" THEN "UNSYMMETRIC" ELSE s2

\* lines 834-858: the requested strategy after the clamps
ClampStrategy(st, m, n, qnull) ==
    LET s1 == IF m # n THEN "UNSYMMETRIC" ELSE st
        s2 == IF s1 \notin {"AUTO", "UNSYMMETRIC", "SYMMETRIC"} THEN "AUTO" ELSE s1
    IN  IF ~qnull /\ s2 # "SYMMETRIC" THEN "UNSYMMETRIC" ELSE s2

\* the argument checks with the dimensions tested before the pointers
CheckArguments_dims_first(apn, ain, hnull, m, n, nzv) ==
    IF m <= 0 \/ n <= 0
    THEN [status |-> "n_nonpositive", nz_read |-> FALSE]
    ELSE IF ain \/ apn \/ hnull
    THEN [status |-> "argument_missing", nz_read |-> FALSE]
    ELSE IF nzv < 0
    THEN [status |-> "invalid_matrix", nz_read |-> TRUE]
    ELSE [status |-> "OK", nz_read |-> TRUE]

\* lines 804-828: the status of the argument checks, and whether Ap [n_col]
\* was read on the way
CheckArguments(apn, ain, hnull, m, n, nzv) ==
    IF ain \/ apn \/ hnull
    THEN [status |-> "argument_missing", nz_read |-> FALSE]
    ELSE IF m <= 0 \/ n <= 0
    THEN [status |-> "n_nonpositive", nz_read |-> FALSE]
    ELSE IF nzv < 0
    THEN [status |-> "invalid_matrix", nz_read |-> TRUE]
    ELSE [status |-> "OK", nz_read |-> TRUE]

Validate ==
    /\ pc = "validate"
    /\ \E apn \in BOOLEAN, ain \in BOOLEAN, h \in {"NULLPTR", "stale"},
          m \in 0 .. MaxN, n \in 0 .. MaxN, nzv \in EMPTY .. (MaxN * MaxN) :
        LET chk == CheckArguments(apn, ain, h = "NULLPTR", m, n, nzv)
        IN  /\ nzv <= m * n
            /\ ~chk.nz_read => nzv = 0
            /\ Ap_null' = apn
            /\ Ai_null' = ain
            /\ n_row' = m
            /\ n_col' = n
            /\ nz' = nzv
            /\ nz_read' = chk.nz_read
            /\ SymbolicHandle' = IF h # "NULLPTR" THEN "NULL" ELSE h
            /\ Info' = [InfoCleared EXCEPT !.STATUS = chk.status]
            /\ IF chk.status # "OK"
               THEN /\ ret' = chk.status
                    /\ pc' = "done"
                    /\ UNCHANGED ctlv
               ELSE /\ ret' = ret
                    /\ pc' = "alloc_symbolic"
                    /\ strategy' = ClampStrategy(strategy, m, n, Quser_null)
                    /\ user_auto_strategy' = (strategy' = "AUTO")
                    /\ ordering_option' = ordering_option
    /\ UNCHANGED <<for_Paru, Quser_null, Quser, user_ordering, A, Ax_null, Ax,
                   strategy_req, SW_Handle, sglv, strv, ordv,
                   finv, memv>>
    /\ UNCHANGED simv

(* ------ first part of the Symbolic object (lines 923-989) -------------- *)
AllocSymbolic ==
    /\ pc = "alloc_symbolic"
    /\ \E hdr \in UMF_malloc({"Symbolic"}) :
        IF hdr = {}
        THEN /\ ErrorReturn("out_of_memory", heap, SymbolicNull, SW, ptr)
             /\ Quser' = Quser
        ELSE \E got \in UMF_malloc(SymbolicPart1) :
            IF got # SymbolicPart1
            THEN /\ ErrorReturn("out_of_memory", heap \cup hdr \cup got,
                                SymbolicHeader, SW, got)
                 /\ Quser' = Quser
            ELSE IF Quser_null
            THEN /\ heap' = heap \cup hdr \cup got
                 /\ Symbolic' = SymbolicHeader
                 /\ ptr' = got
                 /\ pc' = "alloc_work"
                 /\ UNCHANGED <<Quser, Info, ret, SW>>
            ELSE \E Q \in Arrays(n_col, 0 .. n_col) :
                /\ Quser' = Q
                /\ IF ~IsPermutation(Q, n_col)
                   THEN ErrorReturn("invalid_permutation",
                                    heap \cup hdr \cup got, SymbolicHeader, SW, got)
                   ELSE /\ heap' = heap \cup hdr \cup got
                        /\ Symbolic' = SymbolicHeader
                        /\ ptr' = got
                        /\ pc' = "alloc_work"
                        /\ UNCHANGED <<Info, ret, SW>>
    /\ UNCHANGED <<for_Paru, Quser_null, user_ordering, Ap_null, Ai_null, n_row,
                   n_col, nz, A, Ax_null, Ax, strategy_req,
                   SW_Handle, SymbolicHandle, ctlv, sglv, strv, ordv, finv,
                   nz_read>>
    /\ UNCHANGED simv

(* ------------------ workspace (lines 1014-1066) ------------------------ *)
AllocWork ==
    /\ pc = "alloc_work"
    /\ \E hdr \in UMF_malloc({"SW"}) :
        IF hdr = {}
        THEN ErrorReturn("out_of_memory", heap, Symbolic, "NULL", ptr)
        ELSE \E got \in UMF_malloc(SWArrays) :
            IF got # SWArrays
            THEN ErrorReturn("out_of_memory", heap \cup hdr \cup got, Symbolic,
                             "SW", ptr \cup got)
            ELSE /\ heap' = heap \cup hdr \cup got
                 /\ SW' = "SW"
                 /\ ptr' = ptr \cup got
                 /\ Symbolic' = Symbolic
                 /\ pc' = "singletons"
                 /\ UNCHANGED <<Info, ret>>
    /\ UNCHANGED <<argv, SW_Handle, SymbolicHandle, ctlv, sglv, strv, ordv,
                   finv, nz_read>>
    /\ UNCHANGED simv

(* --------------- singleton stage (lines 1080-1131) --------------------- *)
\* arrays and sequences
ToSeq(f, n) == [k \in 1 .. n |-> f[k - 1]]
ToArr(s) == [k \in Idx(Len(s)) |-> s[k + 1]]
\* 0, 1, .., n-1 as an array
Identity(n) == [k \in Idx(n) |-> k]
\* the inverse of the permutation P [0..n-1]
Inverse(P, n) == [i \in Idx(n) |-> CHOOSE k \in Idx(n) : P[k] = i]
\* the elements of S in the order in which the array ord [0..n-1] lists them
InOrder(ord, n, S) ==
    LET keep(x) == x \in S IN SelectSeq(ToSeq(ord, n), keep)

\* degree of column j over the rows R, and of row i over the columns C
ColDegree(M, R, j) == Cardinality({i \in R : <<i, j>> \in M})
RowDegree(M, C, i) == Cardinality({j \in C : <<i, j>> \in M})
\* the entries that are singletons of the residual matrix M (R, C)
SingletonEntries(M, R, C) ==
    {e \in M : /\ e[1] \in R
               /\ e[2] \in C
               /\ (ColDegree(M, R, e[2]) = 1 \/ RowDegree(M, C, e[1]) = 1)}

\* every order in which the singletons of M (R, C) can be peeled until none
\* remains, as sequences of pivot entries <<row, col>>
RECURSIVE Peels(_, _, _)
Peels(M, R, C) ==
    LET cand == SingletonEntries(M, R, C)
    IN  IF cand = {} THEN {<<>>}
        ELSE UNION {{<<e>> \o s : s \in Peels(M, R \ {e[1]}, C \ {e[2]})} :
                    e \in cand}

\* UMF_singletons: the outputs for the peel order peel of the m-by-n matrix M,
\* with the columns taken in the order Q
UMF_singletons(m, n, M, Q, peel) ==
    LET k1 == Len(peel)
        prow == {peel[k][1] : k \in 1 .. k1}
        pcol == {peel[k][2] : k \in 1 .. k1}
        ecol == {j \in Idx(n) : Column(M, j) = {}}
        erow == {i \in Idx(m) : Row(M, i) = {}}
        cp == ToArr([k \in 1 .. k1 |-> peel[k][2]]
                    \o InOrder(Q, n, Idx(n) \ (pcol \cup ecol))
                    \o InOrder(Identity(n), n, ecol))
        rp == ToArr([k \in 1 .. k1 |-> peel[k][1]]
                    \o InOrder(Identity(m), m, Idx(m) \ (prow \cup erow))
                    \o InOrder(Identity(m), m, erow))
        ne_col == Cardinality(ecol)
        ne_row == Cardinality(erow)
        rows2 == Idx(m) \ prow
        cols2 == Idx(n) \ pcol
    IN  [n1 |-> k1, Cperm1 |-> cp, Rperm1 |-> rp,
         nempty_col |-> ne_col, nempty_row |-> ne_row,
         is_sym |-> /\ m = n
                    /\ ne_row = ne_col
                    /\ \A k \in k1 .. (m - ne_row - 1) : rp[k] = cp[k],
         max_rdeg |-> Max({0} \cup {RowDegree(M, cols2, i) : i \in rows2})]

\* UMFPACK_DENSE_DEGREE_THRESHOLD (drow, n): the values the macro can take for
\* the Control [UMFPACK_DENSE_ROW] of the call; no row is denser than MaxN
UMFPACK_DENSE_DEGREE_THRESHOLD == {0, MaxN}

\* lines 1080-1131 for a matrix drawn from Ms, with Control [UMFPACK_SINGLETONS]
\* drawn from dos
SingletonStage(Ms, dos) ==
    /\ pc = "singletons"
    /\ \/ \* UMF_singletons finds the structure of the matrix invalid
          /\ ErrorReturn("invalid_matrix", heap, Symbolic, SW, ptr)
          /\ UNCHANGED <<A, sglv, strategy>>
       \/ \E M \in Ms, do_singletons \in dos,
             thr \in UMFPACK_DENSE_DEGREE_THRESHOLD :
            /\ Cardinality(M) = nz
            /\ A' = M
            /\ \E peel \in (IF do_singletons
                            THEN Peels(M, Idx(n_row), Idx(n_col))
                            ELSE {<<>>}) :
                LET Q == IF Quser_null THEN Identity(n_col) ELSE Quser
                    s == UMF_singletons(n_row, n_col, M, Q, peel)
                IN  /\ n1' = s.n1
                    /\ Cperm1' = s.Cperm1
                    /\ Rperm1' = s.Rperm1
                    /\ nempty_col' = s.nempty_col
                    /\ nempty_row' = s.nempty_row
                    /\ is_sym' = s.is_sym
                    /\ max_rdeg' = s.max_rdeg
                    /\ dense_row_threshold' = thr
                    /\ strategy' = IF ~s.is_sym THEN "UNSYMMETRIC" ELSE strategy
            /\ pc' = "strategy"
            /\ UNCHANGED <<Info, ret, memv>>
    /\ UNCHANGED <<for_Paru, Quser_null, Quser, user_ordering, Ap_null, Ai_null,
                   n_row, n_col, nz, Ax_null, Ax, strategy_req,
                   SW_Handle, SymbolicHandle, user_auto_strategy,
                   ordering_option, strv, ordv, finv, nz_read>>
    /\ UNCHANGED simv

Singletons == SingletonStage(Patterns(n_row, n_col), BOOLEAN)
(* ------------- symmetry statistics and strategy (lines 1141-1298) ------ *)
\* prune_singletons over the columns Cp [k1 .. ncols-1]: the pattern of the
\* pruned matrix as entries <<newrow, newcol>>, and the value returned
prune_singletons(k1, ncols, M, axnull, ax, Cp, InvR) ==
    LET kept == {x \in (k1 .. (ncols - 1)) \X DOMAIN InvR :
                    <<x[2], Cp[x[1]]>> \in M /\ InvR[x[2]] - k1 >= 0}
        do_nzdiag == ~axnull
    IN  [S |-> {<<InvR[x[2]] - k1, x[1] - k1>> : x \in kept},
         nzdiag |-> IF do_nzdiag
                    THEN Cardinality({x \in kept :
                             /\ InvR[x[2]] - k1 = x[1] - k1
                             /\ <<x[2], Cp[x[1]]>> \in ax})
                    ELSE 0]

\* the symmetry AMD_aat reports for the pattern S, as <<numerator,
\* denominator>>: the share of off-diagonal entries whose transpose is also
\* present, 1 when there is no off-diagonal entry
AMD_aat(S) ==
    LET offd == {e \in S : e[1] # e[2]}
        both == {e \in offd : <<e[2], e[1]>> \in S}
    IN  IF offd = {} THEN <<1, 1>> ELSE <<Cardinality(both), Cardinality(offd)>>

\* values, in tenths, of Control [UMFPACK_STRATEGY_THRESH_SYM] and of
\* Control [UMFPACK_STRATEGY_THRESH_NNZDIAG]
TsymValues == {0, 10}
TnzdValues == {5, 9}

\* what the caller can pass as Ax for the pattern M: NULL, or values of which
\* some diagonal entries are zero (no other value is ever read)
AxInputs(M) ==
    {[null |-> TRUE, nonzero |-> {}]}
        \cup {[null |-> FALSE, nonzero |-> M \ Z] :
                 Z \in SUBSET {e \in M : e[1] = e[2]}}

\* the automatic choice without the test of the diagonal
AutoStrategy_sym_only(sy, nzd, k2, ts, tn) ==
    IF sy[1] * 10 >= ts * sy[2] THEN "SYMMETRIC" ELSE "UNSYMMETRIC"

\* lines 1226-1249: the strategy chosen when it is still AUTO
AutoStrategy(sy, nzd, k2, ts, tn) ==
    IF sy[1] * 10 >= ts * sy[2] /\ nzd * 10 >= tn * k2
    THEN "SYMMETRIC" ELSE "UNSYMMETRIC"

\* lines 1283-1290: fixQ after the override
ForceFixQ(fq, force) ==
    IF force > 0 THEN TRUE ELSE IF force < 0 THEN FALSE ELSE fq

nn == MAX(n_row, n_col)
n_inner == MIN(n_row, n_col)
nempty == MIN(nempty_col, nempty_row)
n2 == nn - n1 - nempty

\* lines 1257-1298: fixQ and prefer_diagonal, and the strategy recorded
FinalizeStrategy(strategy1, nzdiag1, stats) ==
    \E force_fixQ \in {-1, 0, 1} :
        /\ strategy' = strategy1
        /\ fixQ' = ForceFixQ(strategy1 = "SYMMETRIC", force_fixQ)
        /\ prefer_diagonal' = (strategy1 = "SYMMETRIC")
        /\ Symbolic' = [Symbolic EXCEPT !.strategy = strategy1]
        /\ Info' = [Info EXCEPT !.NZDIAG = nzdiag1,
                                !.N2 = IF stats THEN n2 ELSE @,
                                !.STRATEGY_USED = strategy1]

Strategy ==
    /\ pc = "strategy"
    /\ IF strategy = "UNSYMMETRIC"
       THEN \* no statistics: sym and nzdiag stay EMPTY
            /\ sym' = <<EMPTY, 1>>
            /\ nzdiag' = EMPTY
            /\ FinalizeStrategy(strategy, EMPTY, FALSE)
            /\ UNCHANGED <<Ax_null, Ax, tsym, tnzd>>
       ELSE \E ax \in AxInputs(A) :
            LET InvRperm1 == Inverse(Rperm1, n_row)
                pr == prune_singletons(n1, nn, A, ax.null, ax.nonzero,
                                       Cperm1, InvRperm1)
                sym1 == AMD_aat(pr.S)
            IN  /\ Ax_null' = ax.null
                /\ Ax' = ax.nonzero
                /\ sym' = sym1
                /\ nzdiag' = pr.nzdiag
                /\ IF strategy = "AUTO"
                   THEN \E ts \in TsymValues, tn \in TnzdValues :
                        /\ tsym' = ts
                        /\ tnzd' = tn
                        /\ FinalizeStrategy(
                               AutoStrategy(sym1, pr.nzdiag, n2, ts, tn),
                               pr.nzdiag, TRUE)
                   ELSE /\ FinalizeStrategy(strategy, pr.nzdiag, TRUE)
                        /\ UNCHANGED <<tsym, tnzd>>
    /\ pc' = "ordering"
    /\ UNCHANGED <<for_Paru, Quser_null, Quser, user_ordering, Ap_null, Ai_null,
                   n_row, n_col, nz, A, strategy_req, SW_Handle,
                   SymbolicHandle, ret, user_auto_strategy, ordering_option,
                   sglv, ordv, finv, SW, ptr, heap, nz_read>>
    /\ UNCHANGED simv

(* ------------------- ordering (lines 1304-1571) ------------------------ *)
\* inverse_permutation, from its loop at step k: ok is the value returned
RECURSIVE inverse_permutation_loop(_, _, _, _)
inverse_permutation_loop(P, Pinv, k, n) ==
    IF k >= n THEN [ok |-> TRUE, Pinv |-> Pinv]
    ELSE LET i == P[k]
         IN  IF i < 0 \/ i >= n \/ Pinv[i] # EMPTY
             THEN [ok |-> FALSE, Pinv |-> Pinv]
             ELSE inverse_permutation_loop(P, [Pinv EXCEPT ![i] = k], k + 1, n)

\* inverse_permutation without the test in its loop: it always returns TRUE
inverse_permutation_unchecked(P, n) ==
    [ok |-> TRUE,
     Pinv |-> [i \in Idx(n) |->
                  LET ks == {k \in Idx(n) : P[k] = i}
                  IN  IF ks = {} THEN EMPTY ELSE Max(ks)]]

inverse_permutation(P, n) ==
    inverse_permutation_loop(P, [i \in Idx(n) |-> EMPTY], 0, n)

\* combine_ordering without its third loop: the empty columns are not copied
combine_ordering_tail_lost(k1, nempty_c, ncols, old, Cp1, Qinv) ==
    [j \in Idx(ncols) |->
        LET ks == {k \in k1 .. (ncols - nempty_c - 1) : Qinv[k - k1] + k1 = j}
        IN  IF j < ncols - nempty_c /\ ks # {} THEN Cp1[Max(ks)]
            ELSE IF j < k1 THEN Cp1[j]
            ELSE old[j]]

\* combine_ordering without knew += n1
combine_ordering_unshifted(k1, nempty_c, ncols, old, Cp1, Qinv) ==
    [j \in Idx(ncols) |->
        IF j >= ncols - nempty_c THEN Cp1[j]
        ELSE LET ks == {k \in k1 .. (ncols - nempty_c - 1) : Qinv[k - k1] = j}
             IN  IF ks # {} THEN Cp1[Max(ks)]
                 ELSE IF j < k1 THEN Cp1[j]
                 ELSE old[j]]

\* combine_ordering: Cperm_init after the three loops, from the content old
combine_ordering(k1, nempty_c, ncols, old, Cp1, Qinv) ==
    [j \in Idx(ncols) |->
        IF j >= ncols - nempty_c THEN Cp1[j]
        ELSE LET ks == {k \in k1 .. (ncols - nempty_c - 1) : Qinv[k - k1] + k1 = j}
             IN  IF ks # {} THEN Cp1[Max(ks)]
                 ELSE IF j < k1 THEN Cp1[j]
                 ELSE old[j]]

\* what is in an array before anything is written to it
Unwritten(n) == [k \in Idx(n) |-> EMPTY]

RECURSIVE SumTo(_, _)
SumTo(f, k) == IF k <= 0 THEN 0 ELSE f[k - 1] + SumTo(f, k - 1)

\* the front trees UMF_colamd or UMF_analyze can return for nc columns: each
\* front has at least one pivot column, the pivot columns add up to nc, and
\* the parent of a front is a later front or EMPTY
FrontData(nc) ==
    IF nc <= 0 THEN {NoFronts}
    ELSE UNION {
        {[nfr |-> f, npivcol |-> np, parent |-> pa] :
            np \in {x \in Arrays(f, 1 .. nc) : SumTo(x, f) = nc},
            pa \in {x \in Arrays(f, {EMPTY} \cup Idx(f)) :
                       \A i \in Idx(f) : x[i] = EMPTY \/ x[i] > i}} :
        f \in 1 .. nc}

\* the orderings UMF_cholmod can report as used in params [2]
CholmodUsed == {"AMD", "METIS"}

\* what the user callback or UMF_cholmod can write for n columns: the value
\* returned and the array P, where n stands for any entry out of range
ExternalOutputs(n) ==
    {[ok |-> TRUE, P |-> p] : p \in Arrays(n, 0 .. n)}
        \cup {[ok |-> FALSE, P |-> Unwritten(n)]}

\* size of the pruned matrix (lines 1378-1379)
nrow2 == n_row - n1 - nempty_row
ncol2 == n_col - n1 - nempty_col

\* an entry of the log of ordering routines: the routine called, the value it
\* returned and the permutation it wrote
Call(routine, ok, P) == [routine |-> routine, ok |-> ok, P |-> P]

\* the ordering stage ends in success with Cperm_init = cp
OrderingDone(used, cp, analyze, fr, inf, called) ==
    /\ Symbolic' = [Symbolic EXCEPT !.ordering = used]
    /\ Info' = [Info EXCEPT !.ORDERING_USED = used]
    /\ Cperm_init' = cp
    /\ do_UMF_analyze' = analyze
    /\ Fr' = fr
    /\ InFront' = inf
    /\ calls' = calls \o called
    /\ pc' = "analyze"
    /\ UNCHANGED <<ret, SW, ptr, heap, Cperm1, Rperm1, finv>>

\* the ordering stage ends in ordering_failed
OrderingFailed(called) ==
    /\ ErrorReturn("ordering_failed", heap, Symbolic, SW, ptr)
    /\ calls' = calls \o called
    /\ UNCHANGED do_UMF_analyze

\* the user callback (opt is USER) or UMF_cholmod is called for n columns and
\* its output checked by inverse_permutation; k1, ne and nc are what
\* combine_ordering is given
ExternalOrdering(opt, n, ne, nc) ==
    \E out \in ExternalOutputs(n) :
        LET routine == IF opt = "USER" THEN "user_ordering" ELSE "UMF_cholmod"
            inv == inverse_permutation(out.P, n)
        IN  IF ~out.ok \/ ~inv.ok
            THEN OrderingFailed(<<Call(routine, out.ok, out.P)>>)
            ELSE \E used \in (IF opt = "USER" THEN {"USER"} ELSE CholmodUsed) :
                 OrderingDone(used,
                     combine_ordering(n1, ne, nc, Unwritten(n_col), Cperm1,
                                      inv.Pinv),
                     TRUE, Fr, InFront, <<Call(routine, out.ok, out.P)>>)

\* lines 1304-1331: do_amd on S+S', then combine_ordering
SymmetricOrdering ==
    LET opt == IF ordering_option = "METIS_GUARD" THEN "METIS"
               ELSE ordering_option
    IN  IF n2 = 0
        THEN \* do_amd calls nothing
             OrderingDone("NONE",
                 combine_ordering(n1, nempty, nn, Unwritten(n_col), Cperm1, <<>>),
                 TRUE, Fr, InFront, <<>>)
        ELSE IF opt = "AMD"
        THEN IF user_ordering
             THEN \* AMD_2 is handed Head = Elen = Degree = NULL and writes
                  \* through them: the call does not return
                  /\ pc' = "crashed"
                  /\ calls' = Append(calls, Call("AMD_2", FALSE, Unwritten(n2)))
                  /\ UNCHANGED <<Info, ret, memv, Cperm_init, do_UMF_analyze,
                                 Fr, InFront, Cperm1, Rperm1, finv>>
             ELSE \E P \in Perms(n2) :
                  OrderingDone("AMD",
                      combine_ordering(n1, nempty, nn, Unwritten(n_col), Cperm1,
                                       Inverse(P, n2)),
                      TRUE, Fr, InFront, <<Call("AMD_2", TRUE, P)>>)
        ELSE ExternalOrdering(opt, n2, nempty, nn)

\* the case of a given Quser falling through to the UMF_colamd call
GivenOrdering_calls_colamd ==
    OrderingDone("GIVEN", Cperm1, TRUE, Fr, InFront,
                 <<Call("UMF_colamd", TRUE, Cperm1)>>)

\* the case of a given Quser with Quser itself taken as the ordering
GivenOrdering_copies_Quser ==
    OrderingDone("GIVEN", Quser, TRUE, Fr, InFront, <<>>)

\* lines 1341-1348: the user's ordering is already in Cperm1
GivenOrdering ==
    OrderingDone("GIVEN", Cperm1, TRUE, Fr, InFront, <<>>)

\* lines 1385-1416: METIS_GUARD selects between METIS and COLAMD
MetisGuard(opt) ==
    IF opt # "METIS_GUARD" THEN opt
    ELSE IF nrow2 = 0 \/ ncol2 = 0 THEN "AMD"
    ELSE IF max_rdeg > dense_row_threshold THEN "AMD"
    ELSE "METIS"

\* lines 1494-1540: UMF_colamd orders the pruned matrix and may build the fronts
Colamd ==
    \E P \in Perms(MAX(ncol2, 0)) :
        LET cp == combine_ordering(n1, nempty_col, n_col, Unwritten(n_col),
                                   Cperm1, Inverse(P, MAX(ncol2, 0)))
        IN  \/ \* UMF_colamd ignored dense rows or columns: its fronts and
               \* InFront are not used
               /\ nrow2 > 0 /\ ncol2 > 0
               /\ OrderingDone("AMD", cp, TRUE, Fr, InFront,
                               <<Call("UMF_colamd", TRUE, P)>>)
            \/ \E fr \in FrontData(ncol2) :
               \E inf \in Arrays(MAX(nrow2, 0), {EMPTY} \cup Idx(fr.nfr)) :
                   OrderingDone("AMD", cp, FALSE, fr, inf,
                                <<Call("UMF_colamd", TRUE, P)>>)

\* the external ordering called even when the pruned matrix is empty
UnsymmetricOrdering_always_external ==
    LET opt == MetisGuard(ordering_option)
    IN  IF opt \in {"USER", "NONE", "METIS", "CHOLMOD", "BEST"}
        THEN ExternalOrdering(opt, ncol2, nempty_col, n_col)
        ELSE Colamd

\* lines 1354-1554: the external ordering or UMF_colamd on the pruned matrix
UnsymmetricOrdering ==
    LET opt == MetisGuard(ordering_option)
    IN  IF opt \in {"USER", "NONE", "METIS", "CHOLMOD", "BEST"}
              /\ nrow2 > 0 /\ ncol2 > 0
        THEN ExternalOrdering(opt, ncol2, nempty_col, n_col)
        ELSE Colamd

Ordering ==
    /\ pc = "ordering"
    /\ IF strategy = "SYMMETRIC" /\ Quser_null THEN SymmetricOrdering
       ELSE IF ~Quser_null THEN GivenOrdering
       ELSE UnsymmetricOrdering
    \* ordering_option, tsym and tnzd are not read again
    /\ ordering_option' = "EMPTY"
    /\ tsym' = 0
    /\ tnzd' = 0
    /\ UNCHANGED <<argv, SW_Handle, SymbolicHandle, strategy,
                   user_auto_strategy, n1, nempty_col, nempty_row, is_sym,
                   max_rdeg, dense_row_threshold, sym, nzdiag, fixQ,
                   prefer_diagonal, nz_read>>
    /\ UNCHANGED simv

(* ---- symbolic factorization and the Symbolic object (lines 1598-2671) -- *)
\* lines 1643-1675: the rows of S that some column touches
RowsSeen(S) == {e[1] : e \in S}

\* the post-order applied from position 0 instead of position n1
PostOrder_from_zero(Cp, k1, nc, Cperm2) ==
    [k \in DOMAIN Cp |->
        IF k >= k1 /\ k < k1 + nc THEN Cp[Cperm2[k - k1]] ELSE Cp[k]]

\* lines 1786-1802: Cperm_init after the post-order Cperm2 is applied
PostOrder(Cp, k1, nc, Cperm2) ==
    [k \in DOMAIN Cp |->
        IF k >= k1 /\ k < k1 + nc THEN Cp[k1 + Cperm2[k - k1]] ELSE Cp[k]]

\* line 1675: nempty_row as recomputed from the column-ordered pruned matrix
NemptyRowAnalyze ==
    n_row - n1 - Cardinality(RowsSeen(
        prune_singletons(n1, n_col, A, TRUE, {}, Cperm_init,
                         Inverse(Rperm1, n_row)).S))

\* lines 1825-1837
nchains(fr) == Cardinality({i \in Idx(fr.nfr) : fr.parent[i] # i + 1})
esize == IF max_rdeg > dense_row_threshold THEN n_col - n1 - nempty_col ELSE 0

\* the first pivot column, in Cperm_init, of front i
FirstPivCol(fr, i) == n1 + SumTo(fr.npivcol, i)

\* lines 1912-1956: InFront found from the fronts fr and the ordering Cp
InFrontFromFronts(fr, Cp) ==
    [row \in Idx(n_row) |->
        IF row \in {Rperm1[k] : k \in Idx(n1)} THEN EMPTY
        ELSE LET fs == {i \in Idx(fr.nfr) :
                           \E newj \in FirstPivCol(fr, i)
                                           .. (FirstPivCol(fr, i + 1) - 1) :
                               <<row, Cp[newj]>> \in A}
             IN  IF fs = {} THEN fr.nfr ELSE Min(fs)]

\* lines 1957-2003: InFront of UMF_colamd permuted through Rperm1
InFrontFromColamd(fr) ==
    LET InvRperm1 == Inverse(Rperm1, n_row)
    IN  [row \in Idx(n_row) |->
            LET k == InvRperm1[row]
            IN  IF k < n1 THEN EMPTY
                ELSE IF k < n_row - nempty_row THEN InFront[k - n1]
                ELSE fr.nfr]

\* the number of rows each front 0..nfr-1 assembles first: Front_1strow as a
\* tally, before it becomes an index
Tally(fr, inf) ==
    [i \in Idx(fr.nfr) |-> Cardinality({r \in Idx(n_row) : inf[r] = i})]

\* lines 2054-2065: Front_1strow [0..nfr] as indices into Rperm_init
FirstRows(fr, inf) ==
    LET t == Tally(fr, inf)
    IN  [i \in 0 .. fr.nfr |-> n1 + SumTo(t, i)]

\* lines 2072-2081: where each row of a front lands in Rperm_init, given
\* first = Front_1strow; the rows of one front keep their order
NewRow(first, inf) ==
    [row \in {r \in Idx(n_row) : inf[r] # EMPTY} |->
        first[inf[row]]
            + Cardinality({r \in Idx(n_row) : r < row /\ inf[r] = inf[row]})]

\* the slots of Rperm_init that lines 2049-2081 do not write
UnwrittenRows(new) == (n1 .. (n_row - 1)) \ Range(new)

\* Rperm_init after lines 2049-2081; old is what the unwritten slots hold
BuildRperm(new, old) ==
    [k \in Idx(n_row) |->
        IF k < n1 THEN Rperm1[k]
        ELSE IF k \in DOMAIN old THEN old[k]
        ELSE Max({r \in DOMAIN new : new[r] = k})]

\* what a slot that was never written, or a read out of bounds, can hold: a
\* value that is no index, or one that is an index below n
Garbage(n) == {EMPTY, 0}

\* lines 2126-2131 stay inside Ci: every Rperm_init [0..nn-1] is a row index
DiagonalMapInBounds(Rp) ==
    /\ n_row = nn
    /\ \A k \in Idx(nn) : Rp[k] \in Idx(nn)

\* the entries of Diagonal_map that lines 2132-2139 read from a slot of Ci
\* that lines 2126-2131 wrote
DiagonalMapKnown(Rp, Cp) ==
    {newcol \in Idx(MIN(nn, n_col)) :
        \E newrow \in Idx(MIN(nn, n_row)) : Rp[newrow] = Cp[newcol]}

\* lines 2126-2139: Diagonal_map [newcol] = the new row of row
\* Cperm_init [newcol]; junk is what the other entries hold
DiagonalMap(Rp, Cp, junk) ==
    [newcol \in Idx(nn) |->
        IF newcol \in DOMAIN junk THEN junk[newcol]
        ELSE Max({newrow \in Idx(MIN(nn, n_row)) : Rp[newrow] = Cp[newcol]})]

\* lines 2630-2671: the object is marked valid and handed to the caller; the
\* workspace goes to the caller of umfpack_*_paru_symbolic or is freed
Finish(h, p) ==
    /\ Symbolic' = [Symbolic EXCEPT !.valid = TRUE]
    /\ SymbolicHandle' = "Symbolic"
    /\ \E swh \in (IF for_Paru THEN {"NULLPTR", "stale"} ELSE {"NULLPTR"}) :
        IF swh # "NULLPTR"
        THEN /\ SW_Handle' = "SW"
             /\ heap' = h
             /\ ptr' = p
        ELSE /\ SW_Handle' = swh
             /\ heap' = UMFPACK_paru_free_sw(h, SW, p)
             /\ ptr' = p \ SWMembers
    /\ SW' = "NULL"
    /\ ret' = "OK"
    /\ pc' = "done"
    /\ UNCHANGED <<Info, Cperm1, Rperm1>>

\* the arrays the stage leaves behind when it does not fail
Built(fr, Cp, inf, Rp) ==
    /\ Fr' = fr
    /\ Cperm_init' = Cp
    /\ InFront' = inf
    /\ Front_1strow' = FirstRows(fr, inf)
    /\ Rperm_init' = Rp

\* lines 2109-2179, then the return
DiagonalMapAndFinish(h, p, fr, Cp, inf, Rp) ==
    IF prefer_diagonal \/ for_Paru
    THEN \E dm \in UMF_malloc({"Symbolic.Diagonal_map"}) :
         IF dm = {}
         THEN /\ ErrorReturn("out_of_memory", h, Symbolic, SW, p)
              /\ UNCHANGED <<SW_Handle, SymbolicHandle>>
         ELSE \/ \* Ci is written out of bounds
                 /\ ~DiagonalMapInBounds(Rp)
                 /\ pc' = "crashed"
                 /\ heap' = h \cup dm
                 /\ ptr' = p \cup dm
                 /\ Built(fr, Cp, inf, Rp)
                 /\ UNCHANGED <<SW_Handle, SymbolicHandle, Diagonal_map, Info,
                                ret, Symbolic, SW, Cperm1, Rperm1>>
              \/ \E junk \in [Idx(nn) \ DiagonalMapKnown(Rp, Cp)
                                  -> Garbage(nn)] :
                 /\ Diagonal_map' = DiagonalMap(Rp, Cp, junk)
                 /\ Built(fr, Cp, inf, Rp)
                 /\ Finish(h \cup dm, p \cup dm)
    ELSE /\ Diagonal_map' = Diagonal_map
         /\ Built(fr, Cp, inf, Rp)
         /\ Finish(h, p)

\* lines 1825-2089: the second part of the Symbolic object, the rows of each
\* front and Rperm_init, for the fronts fr and the column ordering Cp
FrontsAndRows(h, p, fr, Cp) ==
    LET part2 == SymbolicPart2
                     \cup (IF esize > 0 THEN {"Symbolic.Esize"} ELSE {})
        inf == IF do_UMF_analyze THEN InFrontFromFronts(fr, Cp)
               ELSE InFrontFromColamd(fr)
        new == NewRow(FirstRows(fr, inf), inf)
    IN  \E got \in UMF_malloc(part2) :
        IF got # part2
        THEN /\ ErrorReturn("out_of_memory", h \cup got, Symbolic, SW, p \cup got)
             /\ UNCHANGED <<SW_Handle, SymbolicHandle>>
        ELSE \E old \in [UnwrittenRows(new) -> Garbage(n_row)] :
             DiagonalMapAndFinish(h \cup got, p \cup got, fr, Cp, inf,
                                  BuildRperm(new, old))

\* the stage with lines 1816-1818 freeing Si, Sp and Cperm1 without setting
\* SW->Si, SW->Sp and SW->Cperm1 to NULL
Finalize_keeps_early_pointers ==
    /\ pc = "analyze"
    /\ IF do_UMF_analyze
       THEN /\ nempty_row' = NemptyRowAnalyze
            /\ \/ \* UMF_analyze fails
                  /\ ErrorReturn("internal_error", heap, Symbolic, SW, ptr)
                  /\ UNCHANGED <<SW_Handle, SymbolicHandle>>
               \/ \E fr \in FrontData(n_col - n1 - nempty_col),
                     Cperm2 \in (IF fixQ THEN {<<>>}
                                 ELSE Perms(MAX(n_col - n1 - nempty_col, 0))) :
                  FrontsAndRows(UMF_free(heap, SWEarly), ptr, fr,
                      IF fixQ THEN Cperm_init
                      ELSE PostOrder(Cperm_init, n1, n_col - n1 - nempty_col,
                                     Cperm2))
       ELSE /\ UNCHANGED nempty_row
            /\ FrontsAndRows(UMF_free(heap, SWEarly), ptr, Fr,
                             Cperm_init)
    /\ UNCHANGED <<argv, ctlv, n1, nempty_col, is_sym, max_rdeg,
                   dense_row_threshold, strv, do_UMF_analyze, calls, nz_read>>
    /\ UNCHANGED simv

\* lines 1600-2671: UMF_analyze, the early release, the fronts, the rows, the
\* diagonal map and the return
Finalize ==
    /\ pc = "analyze"
    /\ IF do_UMF_analyze
       THEN /\ nempty_row' = NemptyRowAnalyze
            /\ \/ \* UMF_analyze fails
                  /\ ErrorReturn("internal_error", heap, Symbolic, SW, ptr)
                  /\ UNCHANGED <<SW_Handle, SymbolicHandle>>
               \/ \E fr \in FrontData(n_col - n1 - nempty_col),
                     Cperm2 \in (IF fixQ THEN {<<>>}
                                 ELSE Perms(MAX(n_col - n1 - nempty_col, 0))) :
                  FrontsAndRows(UMF_free(heap, SWEarly), ptr \ SWEarly, fr,
                      IF fixQ THEN Cperm_init
                      ELSE PostOrder(Cperm_init, n1, n_col - n1 - nempty_col,
                                     Cperm2))
       ELSE /\ UNCHANGED nempty_row
            /\ FrontsAndRows(UMF_free(heap, SWEarly), ptr \ SWEarly, Fr,
                             Cperm_init)
    /\ UNCHANGED <<argv, ctlv, n1, nempty_col, is_sym, max_rdeg,
                   dense_row_threshold, strv, do_UMF_analyze, calls, nz_read>>
    /\ UNCHANGED simv


(* ----- chains and resource simulation (lines 2183-2580), on their own ---- *)
\* The values lines 2183-2580 read are few: the dimensions, the counts of the
\* singleton stage, the fronts and the degrees. SimInit draws them directly,
\* as they can be when line 2183 is reached, for matrices of up to MaxN rows
\* and columns; every other variable stays as Init has it.

\* each front is Fr_nrows [i]-by-Fr_ncols [i] and holds its pivot columns
FrontSizes(fr) ==
    {[nrows |-> r, ncols |-> c] :
        r \in Arrays(fr.nfr, 0 .. MaxN),
        c \in {x \in Arrays(fr.nfr, 1 .. MaxN) :
                  \A i \in Idx(fr.nfr) : x[i] >= fr.npivcol[i]}}

\* lines 732, 767-770: the block size after the clamps
NbValues == {2, 4}

\* Cdeg and Rdeg as UMF_singletons leaves them for k1 singletons and ne empty
\* columns (rows) out of n: a pivot and an entry of the pruned matrix have a
\* degree of at least 1, an empty column (row) has degree 0
Degrees(n, k1, ne, perm) ==
    {d \in Arrays(n, 0 .. MaxN) :
        \A k \in Idx(n) : IF k >= n - ne THEN d[perm[k]] = 0 ELSE d[perm[k]] >= 1}

\* a[i] = v, where the array grows when i is past what was written so far
Put(a, i, v) == [k \in DOMAIN a \cup {i} |-> IF k = i THEN v ELSE a[k]]

\* lines 2208-2215: the state of the chain loop before its first pass
ChainLoopStart ==
    [nchains |-> 0, Chain_start |-> (0 :> 0), Chain_maxrows |-> <<>>,
     Chain_maxcols |-> <<>>, maxrows |-> 1, maxcols |-> 1,
     maxnrows |-> 1, maxncols |-> 1]

\* one pass that ends a chain only at a root of the front tree
ChainLoopBody_ends_at_roots(st, fr, rows, cols, i) ==
    LET maxrows == MAX(st.maxrows, rows[i])
        maxcols == MAX(st.maxcols, cols[i])
        odd == IF maxrows % 2 = 0 THEN maxrows + 1 ELSE maxrows
    IN  IF fr.parent[i] = EMPTY
        THEN [nchains |-> st.nchains + 1,
              Chain_start |-> Put(st.Chain_start, st.nchains + 1, i + 1),
              Chain_maxrows |-> Put(st.Chain_maxrows, st.nchains, odd),
              Chain_maxcols |-> Put(st.Chain_maxcols, st.nchains, maxcols),
              maxrows |-> 1, maxcols |-> 1,
              maxnrows |-> MAX(st.maxnrows, odd),
              maxncols |-> MAX(st.maxncols, maxcols)]
        ELSE [st EXCEPT !.maxrows = maxrows, !.maxcols = maxcols]

\* one pass that records the row count of a chain without rounding it up
ChainLoopBody_unrounded(st, fr, rows, cols, i) ==
    LET maxrows == MAX(st.maxrows, rows[i])
        maxcols == MAX(st.maxcols, cols[i])
    IN  IF fr.parent[i] # i + 1
        THEN [nchains |-> st.nchains + 1,
              Chain_start |-> Put(st.Chain_start, st.nchains + 1, i + 1),
              Chain_maxrows |-> Put(st.Chain_maxrows, st.nchains, maxrows),
              Chain_maxcols |-> Put(st.Chain_maxcols, st.nchains, maxcols),
              maxrows |-> 1, maxcols |-> 1,
              maxnrows |-> MAX(st.maxnrows, maxrows),
              maxncols |-> MAX(st.maxncols, maxcols)]
        ELSE [st EXCEPT !.maxrows = maxrows, !.maxcols = maxcols]

\* lines 2218-2264: one pass of the chain loop, for front i
ChainLoopBody(st, fr, rows, cols, i) ==
    LET maxrows == MAX(st.maxrows, rows[i])
        maxcols == MAX(st.maxcols, cols[i])
        odd == IF maxrows % 2 = 0 THEN maxrows + 1 ELSE maxrows
    IN  IF fr.parent[i] # i + 1
        THEN [nchains |-> st.nchains + 1,
              Chain_start |-> Put(st.Chain_start, st.nchains + 1, i + 1),
              Chain_maxrows |-> Put(st.Chain_maxrows, st.nchains, odd),
              Chain_maxcols |-> Put(st.Chain_maxcols, st.nchains, maxcols),
              maxrows |-> 1, maxcols |-> 1,
              maxnrows |-> MAX(st.maxnrows, odd),
              maxncols |-> MAX(st.maxncols, maxcols)]
        ELSE [st EXCEPT !.maxrows = maxrows, !.maxcols = maxcols]

\* lines 2217-2270: the chain loop over the fronts 0..k-1, then the two writes
\* after it
RECURSIVE ChainLoop(_, _, _, _)
ChainLoop(fr, rows, cols, k) ==
    IF k = 0 THEN ChainLoopStart
    ELSE ChainLoopBody(ChainLoop(fr, rows, cols, k - 1), fr, rows, cols, k - 1)

FindChains(fr, rows, cols) ==
    LET st == ChainLoop(fr, rows, cols, fr.nfr)
    IN  [st EXCEPT !.Chain_maxrows = Put(st.Chain_maxrows, st.nchains, 0),
                   !.Chain_maxcols = Put(st.Chain_maxcols, st.nchains, 0)]

\* the most fronts of a matrix whose chains are examined on their own
MaxFronts == 3

\* the state at line 2183 of a call on an m-by-n matrix with k1 singletons
SimState(m, n, k1, nec, ner, fr, sz, cp, rp, cd, rd, thr, blk) ==
    /\ pc = "chains"
    /\ n_row = m
    /\ n_col = n
    /\ n1 = k1
    /\ nempty_col = nec
    /\ nempty_row = ner
    /\ Fr = fr
    /\ Fr_nrows = sz.nrows
    /\ Fr_ncols = sz.ncols
    /\ Cperm_init = cp
    /\ Rperm_init = rp
    /\ Cdeg = cd
    /\ Rdeg = rd
    /\ max_rdeg = Max({0} \cup {rd[rp[k]] : k \in k1 .. (m - ner - 1)})
    /\ dense_row_threshold = thr
    /\ nb = blk
    /\ Esize = <<>>
    /\ Chain_start = <<>>
    /\ Chain_maxrows = <<>>
    /\ Chain_maxcols = <<>>
    /\ maxnrows = 0
    /\ maxncols = 0
    /\ usage = NoUsage
    /\ dlnz = 0
    /\ dunz = 0
    /\ est = NoEstimates
    /\ dClen = 0
    /\ Clen = 0
    /\ Q1 = <<>>
    /\ Front_leftmostdesc = <<>>
    /\ walk = NoWalk
    /\ NumericHandle = "NULLPTR"
    /\ freed = <<>>
    \* not read by lines 2183-2580
    /\ for_Paru = FALSE
    /\ Quser_null = TRUE
    /\ Quser = <<>>
    /\ user_ordering = FALSE
    /\ SW_Handle = "NULLPTR"
    /\ SymbolicHandle = "NULLPTR"
    /\ Ap_null = FALSE
    /\ Ai_null = FALSE
    /\ nz = 0
    /\ nz_read = FALSE
    /\ A = {}
    /\ Ax_null = TRUE
    /\ Ax = {}
    /\ Info = InfoStale
    /\ ret = "running"
    /\ strategy_req = "AUTO"
    /\ strategy = "AUTO"
    /\ user_auto_strategy = FALSE
    /\ ordering_option = "AMD"
    /\ tsym = 0
    /\ tnzd = 0
    /\ Cperm1 = <<>>
    /\ Rperm1 = <<>>
    /\ is_sym = FALSE
    /\ sym = <<EMPTY, 1>>
    /\ nzdiag = EMPTY
    /\ fixQ = FALSE
    /\ prefer_diagonal = FALSE
    /\ do_UMF_analyze = FALSE
    /\ InFront = <<>>
    /\ Front_1strow = <<>>
    /\ Diagonal_map = <<>>
    /\ calls = <<>>
    /\ Symbolic = SymbolicNull
    /\ SW = "NULL"
    /\ ptr = {}
    /\ heap = {}

\* every matrix of at most MaxN rows and columns
SimInit ==
    \E m \in 1 .. MaxN, n \in 1 .. MaxN :
    \E k1 \in 0 .. MIN(m, n) :
    \E nec \in 0 .. (n - k1), ner \in 0 .. (m - k1) :
    \E fr \in FrontData(n - k1 - nec), cp \in Perms(n), rp \in Perms(m),
       thr \in UMFPACK_DENSE_DEGREE_THRESHOLD, blk \in NbValues :
    \E sz \in FrontSizes(fr), cd \in Degrees(n, k1, nec, cp),
       rd \in Degrees(m, k1, ner, rp) :
        SimState(m, n, k1, nec, ner, fr, sz, cp, rp, cd, rd, thr, blk)

\* the square matrices of at most MaxFronts columns without singletons, empty
\* rows or empty columns, every row and column with one entry
ChainInit ==
    \E n \in 1 .. MaxFronts :
    \E fr \in FrontData(n) :
    \E sz \in FrontSizes(fr) :
        SimState(n, n, 0, 0, 0, fr, sz, Identity(n), Identity(n),
                 [k \in Idx(n) |-> 1], [k \in Idx(n) |-> 1], MaxN, 2)

\* what lines 2183-2580 neither read nor write here
restv == <<argv, outv, ctlv, n1, Cperm1, Rperm1, nempty_col, nempty_row, is_sym,
           max_rdeg, dense_row_threshold, strv, ordv, finv, memv, nz_read, clenv,
           Q1, lmdv, relv>>

\* lines 2208-2283: the chains, and the largest front
Chains ==
    /\ pc = "chains"
    /\ LET st == FindChains(Fr, Fr_nrows, Fr_ncols)
       IN  /\ Chain_start' = st.Chain_start
           /\ Chain_maxrows' = st.Chain_maxrows
           /\ Chain_maxcols' = st.Chain_maxcols
           /\ maxnrows' = st.maxnrows
           /\ maxncols' = st.maxncols
    /\ pc' = "element_sizes"
    /\ UNCHANGED <<restv, nb, Fr_nrows, Fr_ncols, Cdeg, Rdeg, Esize, usage, dlnz,
                   dunz, est>>

\* ---------------------------------------------------------------------------
\* Lines 2285-2580: the simulation of UMF_kernel_init and UMF_kernel
\* ---------------------------------------------------------------------------

\* the storage granules of the int / double build, in bytes
SizeofInt == 4
SizeofUnit == 8
SizeofEntry == 8
SizeofPointer == 8
SizeofTuple == 8
SizeofElement == 28

\* the number of Units that hold n items of the given size
UNITS(size, n) == (n * size + SizeofUnit - 1) \div SizeofUnit

\* the same in double precision: ceil (n * size / sizeof (Unit))
DUNITS(size, n) == (n * size + SizeofUnit - 1) \div SizeofUnit

\* the tuples allocated for a list of t tuples
TUPLES(t) == MAX(4, t + 1)

\* an nr-by-nc element: header, row and column indices, values
GET_ELEMENT_SIZE(nr, nc) ==
    UNITS(SizeofElement, 1) + UNITS(SizeofInt, nr + nc) + UNITS(SizeofEntry, nr * nc)

DGET_ELEMENT_SIZE(nr, nc) ==
    DUNITS(SizeofElement, 1) + DUNITS(SizeofInt, nr + nc)
        + DUNITS(SizeofEntry, nr * nc)

\* lines 52-54: an element with its header and its tuples
ELEMENT_SIZE(r, c) ==
    DGET_ELEMENT_SIZE(r, c) + 1 + (r + c) * UNITS(SizeofTuple, 1)

\* the sum of the values of a function
RECURSIVE SumOver(_)
SumOver(f) ==
    IF DOMAIN f = {} THEN 0
    ELSE LET k == CHOOSE k \in DOMAIN f : TRUE
         IN  f[k] + SumOver([j \in DOMAIN f \ {k} |-> f[j]])

\* the rows n1 .. n_row-nempty_row-1 that line 2399 takes as dense
DenseRows(rd) == {k \in n1 .. (n_row - nempty_row - 1) : rd[k] > dense_row_threshold}

\* lines 2288-2318: Esize [col - n1] is the degree of the column less its
\* entries in dense rows; without a dense row there is no Esize
ElementSizeArrays ==
    IF esize > 0
    THEN {e \in Arrays(n_col - n1 - nempty_col, 0 .. MaxN) :
             \A k \in DOMAIN e :
                 LET deg == Cdeg[Cperm_init[n1 + k]]
                     dense == {r \in n1 .. (n_row - nempty_row - 1) :
                                  Rdeg[Rperm_init[r]] > dense_row_threshold}
                 IN  /\ e[k] <= deg
                     /\ deg - e[k] <= Cardinality(dense)}
    ELSE {<<>>}

\* lines 2285-2346: the element sizes, then Cdeg and Rdeg in the new order
ElementSizes ==
    /\ pc = "element_sizes"
    /\ Esize' \in ElementSizeArrays
    /\ Cdeg' = [k \in Idx(n_col) |-> Cdeg[Cperm_init[k]]]
    /\ Rdeg' = [k \in Idx(n_row) |-> Rdeg[Rperm_init[k]]]
    /\ pc' = "kernel_init"
    /\ UNCHANGED <<restv, nb, Fr_nrows, Fr_ncols, chnv, usage, dlnz, dunz, est>>

\* lines 2373-2386: the LU factors of singleton k, at the head
SingletonHead(k) ==
    LET lnz == Cdeg[k] - 1
        unz == Rdeg[k] - 1
    IN  UNITS(SizeofInt, lnz) + UNITS(SizeofEntry, lnz)
            + UNITS(SizeofInt, unz) + UNITS(SizeofEntry, unz)

\* lines 2367-2368: the Rpi and Rpx workspace of UMF_kernel_init
RpiRpx == UNITS(SizeofPointer, n_row + 1) + UNITS(SizeofPointer, n_row + 1)

\* lines 2388-2398: the column elements
ColumnElements ==
    SumOver([k \in n1 .. (n_col - nempty_col - 1) |->
        LET es == IF Esize # <<>> THEN Esize[k - n1] ELSE Cdeg[k]
        IN  IF es > 0 THEN GET_ELEMENT_SIZE(es, 1) + 1 ELSE 0])

\* lines 2401-2417: the dense row elements
DenseRowElements ==
    IF Esize # <<>>
    THEN SumOver([k \in DenseRows(Rdeg) |-> GET_ELEMENT_SIZE(1, Rdeg[k]) + 1])
    ELSE 0

\* lines 2421-2462: the tuple lists of the rows and columns
TupleLists ==
    IF Esize # <<>>
    THEN SumOver([row \in n1 .. (n_row - 1) |->
             1 + UNITS(SizeofTuple,
                       TUPLES(IF Rdeg[row] > dense_row_threshold THEN 1
                              ELSE Rdeg[row]))])
         + SumOver([col \in n1 .. (n_col - nempty_col - 1) |->
             LET es == Esize[col - n1]
                 tlen == (IF es > 0 THEN 1 ELSE 0) + (Cdeg[col] - es)
             IN  1 + UNITS(SizeofTuple, TUPLES(tlen))])
         + SumOver([col \in MAX(n1, n_col - nempty_col) .. (n_col - 1) |->
             1 + UNITS(SizeofTuple, TUPLES(0))])
    ELSE SumOver([row \in n1 .. (n_row - 1) |->
             1 + UNITS(SizeofTuple, TUPLES(Rdeg[row]))])
         + SumOver([col \in n1 .. (n_col - 1) |->
             1 + UNITS(SizeofTuple, TUPLES(1))])

\* the nonzeros of L after the singletons, without the diagonal
SingletonLnz_offdiagonal == SumOver([k \in Idx(n1) |-> Cdeg[k] - 1])

\* lines 2355-2386: the nonzeros of L, diagonal included, after the singletons
SingletonLnz == n_inner + SumOver([k \in Idx(n1) |-> Cdeg[k] - 1])

\* the same for U
SingletonUnz == n_inner + SumOver([k \in Idx(n1) |-> Rdeg[k] - 1])

\* lines 2363-2386: the head after the marker and the singletons
InitHead == 1 + SumOver([k \in Idx(n1) |-> SingletonHead(k)])

\* lines 2366-2462: the tail after the markers, Rpi and Rpx, the elements and
\* the tuple lists
InitTail == 2 + RpiRpx + 2 + ColumnElements + DenseRowElements + TupleLists

\* the usage once Rpi and Rpx are released, taken for the peak
InitPeak_after_release == InitHead + InitTail - RpiRpx

\* lines 2470-2472: the peak so far is the usage before Rpi and Rpx are
\* released, the larger of the integer and the double count
InitPeak == MAX(InitHead + InitTail, InitHead + InitTail)

\* lines 2355-2480: the simulation of UMF_kernel_init
KernelInit ==
    /\ pc = "kernel_init"
    /\ dlnz' = SingletonLnz
    /\ dunz' = SingletonUnz
    /\ est' = [est EXCEPT !.num_mem_init_usage = InitHead + InitTail]
    /\ usage' = [head |-> InitHead, tail |-> InitTail - RpiRpx,
                 dhead |-> InitHead, dtail |-> InitTail - RpiRpx,
                 dmax |-> InitPeak]
    /\ pc' = "kernel"
    /\ UNCHANGED <<restv, nb, Fr_nrows, Fr_ncols, Cdeg, Rdeg, Esize, chnv>>

\* lines 2516-2523: the pivots, Schur rows and Schur columns of front i
FrontShape(i) ==
    LET fpiv == MIN(Fr.npivcol[i], Fr_nrows[i])
    IN  [f |-> fpiv, r |-> Fr_nrows[i] - fpiv, c |-> Fr_ncols[i] - fpiv]

\* lines 2526-2536: the elements of the children on the list that starts at
\* child
RECURSIVE ChildElements(_, _)
ChildElements(Link, child) ==
    IF child = EMPTY THEN 0
    ELSE ELEMENT_SIZE(FrontShape(child).r, FrontShape(child).c)
             + ChildElements(Link, Link[child])

\* lines 2486-2492: before the first chain
KernelStart ==
    [dhead |-> usage.dhead, dtail |-> usage.dtail, dmax |-> usage.dmax,
     dlnz |-> dlnz, dunz |-> dunz, Link |-> [i \in Idx(Fr.nfr) |-> EMPTY]]

\* lines 2514-2568 without line 2549: front i whose nonzeros are not counted
KernelFront_uncounted(st, i) ==
    LET s == FrontShape(i)
        parent == Fr.parent[i]
        dlf == (s.f * s.f - s.f) \div 2 + s.f * s.r
        duf == (s.f * s.f - s.f) \div 2 + s.f * s.c
        dhead == st.dhead + DUNITS(SizeofEntry, dlf + duf)
                     + DUNITS(SizeofInt, s.r + s.c + s.f)
        dtail == st.dtail - ChildElements(st.Link, st.Link[i])
                     + (IF parent # EMPTY THEN ELEMENT_SIZE(s.r, s.c) ELSE 0)
    IN  [dhead |-> dhead,
         dtail |-> dtail,
         dmax |-> MAX(st.dmax, dhead + dtail),
         dlnz |-> st.dlnz,
         dunz |-> st.dunz + duf,
         Link |-> IF parent # EMPTY
                  THEN [st.Link EXCEPT ![i] = st.Link[parent], ![parent] = i]
                  ELSE st.Link]

\* lines 2514-2568 without line 2563: front i is put at the head of the list
\* of its parent and keeps its own link
KernelFront_keeps_link(st, i) ==
    LET s == FrontShape(i)
        parent == Fr.parent[i]
        dlf == (s.f * s.f - s.f) \div 2 + s.f * s.r
        duf == (s.f * s.f - s.f) \div 2 + s.f * s.c
        dhead == st.dhead + DUNITS(SizeofEntry, dlf + duf)
                     + DUNITS(SizeofInt, s.r + s.c + s.f)
        dtail == st.dtail - ChildElements(st.Link, st.Link[i])
                     + (IF parent # EMPTY THEN ELEMENT_SIZE(s.r, s.c) ELSE 0)
    IN  [dhead |-> dhead,
         dtail |-> dtail,
         dmax |-> MAX(st.dmax, dhead + dtail),
         dlnz |-> st.dlnz + dlf,
         dunz |-> st.dunz + duf,
         Link |-> IF parent # EMPTY
                  THEN [st.Link EXCEPT ![parent] = i]
                  ELSE st.Link]

\* lines 2514-2568: front i is assembled, factorized and stored
KernelFront(st, i) ==
    LET s == FrontShape(i)
        parent == Fr.parent[i]
        dlf == (s.f * s.f - s.f) \div 2 + s.f * s.r
        duf == (s.f * s.f - s.f) \div 2 + s.f * s.c
        dhead == st.dhead + DUNITS(SizeofEntry, dlf + duf)
                     + DUNITS(SizeofInt, s.r + s.c + s.f)
        dtail == st.dtail - ChildElements(st.Link, st.Link[i])
                     + (IF parent # EMPTY THEN ELEMENT_SIZE(s.r, s.c) ELSE 0)
    IN  [dhead |-> dhead,
         dtail |-> dtail,
         dmax |-> MAX(st.dmax, dhead + dtail),
         dlnz |-> st.dlnz + dlf,
         dunz |-> st.dunz + duf,
         Link |-> IF parent # EMPTY
                  THEN [st.Link EXCEPT ![i] = st.Link[parent], ![parent] = i]
                  ELSE st.Link]

\* lines 2512-2569: the fronts i .. f2 of a chain
RECURSIVE KernelFronts(_, _, _)
KernelFronts(st, i, f2) ==
    IF i > f2 THEN st ELSE KernelFronts(KernelFront(st, i), i + 1, f2)

\* lines 2497-2509: the frontal matrix working array of a chain
FrontalWorkspace(chain) ==
    LET dr == Chain_maxrows[chain]
        dc == Chain_maxcols[chain]
    IN  DUNITS(SizeofEntry, nb * nb + dr * nb + nb * dc + dr * dc)

\* lines 2495-2574: one chain
KernelChain(st, chain) ==
    LET f1 == Chain_start[chain]
        f2 == Chain_start[chain + 1] - 1
        dtail == st.dtail + FrontalWorkspace(chain)
        fronts == KernelFronts([st EXCEPT !.dtail = dtail,
                                          !.dmax = MAX(@, st.dhead + dtail)],
                               f1, f2)
    IN  [fronts EXCEPT !.dtail = @ - FrontalWorkspace(chain)]

\* lines 2495-2574: the chains 0 .. k-1
RECURSIVE KernelChains(_)
KernelChains(k) ==
    IF k = 0 THEN KernelStart ELSE KernelChain(KernelChains(k - 1), k - 1)

\* lines 2486-2580: the simulation of UMF_kernel and the estimates
Kernel ==
    /\ pc = "kernel"
    /\ LET st == KernelChains(nchains(Fr))
       IN  /\ usage' = [usage EXCEPT !.dhead = st.dhead, !.dtail = st.dtail,
                                     !.dmax = st.dmax]
           /\ dlnz' = st.dlnz
           /\ dunz' = st.dunz
           /\ est' = [est EXCEPT !.num_mem_size_est = st.dhead,
                                 !.num_mem_usage_est = st.dmax,
                                 !.lunz_bound = st.dlnz + st.dunz - n_inner]
    /\ pc' = "simulated"
    /\ UNCHANGED <<restv, nb, Fr_nrows, Fr_ncols, Cdeg, Rdeg, Esize, chnv>>

\* ---------------------------------------------------------------------------
\* Lines 862-910: the size Clen of the workspace Ci
\* ---------------------------------------------------------------------------

\* the width of Int in bits, and the largest dimensions and entry count for
\* which Clen is examined
IntBits == 9
ClenMaxDim == 10
ClenMaxNz == 12

\* the largest Int
Int_MAX == 2 ^ (IntBits - 1) - 1

\* an integer result as an Int holds it
Wrap(x) == ((x + 2 ^ (IntBits - 1)) % (2 ^ IntBits)) - 2 ^ (IntBits - 1)

\* INT_OVERFLOW (x), for x given in fifths: x * (1 + 1e-8) <= Int_MAX fails.
\* For the multiples of 1/5 below 1e8 that is x >= Int_MAX.
INT_OVERFLOW(x5) == ~(x5 < 5 * Int_MAX)

\* UMF_COLAMD_RECOMMENDED as lines 868-870 give it, in exact arithmetic:
\* 2.2 nz + 9 n_col + 6 n_row or nz/5 + 13 n_col + 6 n_row, whichever is bigger
ColamdRecommended5(nzv, m, n) == 5 * MAX(2 * nzv, 4 * n) + nzv + 45 * n + 30 * m

\* lines 49-50 in exact arithmetic
AnalyzeClen(nzv, m, n) == n + MAX(nzv, n) + 3 * MAX(m, n) + 1 + n

\* line 883: 2.4 nz + 8 n_inner + 1, in fifths
AmdClen5(nzv, m, n) == 12 * nzv + 40 * MIN(m, n) + 5

\* lines 873-885: dClen, in fifths
DoubleClen5(nzv, m, n) ==
    MAX(MAX(ColamdRecommended5(nzv, m, n), 5 * AnalyzeClen(nzv, m, n)),
        AmdClen5(nzv, m, n))

\* UMF_COLAMD_RECOMMENDED on Int arguments
UMF_COLAMD_RECOMMENDED(nzv, m, n) ==
    Wrap(Wrap(Wrap(MAX(Wrap(2 * nzv), Wrap(4 * n)) + nzv \div 5)
                  + Wrap(9 * n))
             + Wrap(6 * m))

\* lines 49-50 on Int arguments
UMF_ANALYZE_CLEN(nzv, m, n, nnv) ==
    Wrap(Wrap(Wrap(Wrap(n + MAX(nzv, n)) + Wrap(3 * nnv)) + 1) + n)

\* Clen as the AMD requirement of line 909 alone
IntegerClen_amd_only(nzv, m, n) == Wrap(AmdClen5(nzv, m, n) \div 5)

\* lines 906-910: Clen, recomputed in integers; the double of line 909 is
\* converted to Int
IntegerClen(nzv, m, n) ==
    MAX(MAX(UMF_COLAMD_RECOMMENDED(nzv, m, n),
            UMF_ANALYZE_CLEN(nzv, m, n, MAX(m, n))),
        Wrap(AmdClen5(nzv, m, n) \div 5))

\* the test without the size of an Int
ClenTooLarge_unscaled(d5) == INT_OVERFLOW(d5)

\* line 893: Clen * sizeof (Int) does not fit an Int
ClenTooLarge(d5) == INT_OVERFLOW(d5 * SizeofInt)

\* the state at line 862 of a call whose arguments passed the checks
ClenInit ==
    \E m \in 1 .. ClenMaxDim, n \in 1 .. ClenMaxDim, nzv \in 0 .. ClenMaxNz :
        /\ pc = "clen"
        /\ NotSimulated
        /\ n_row = m
        /\ n_col = n
        /\ nz = nzv
        /\ nz_read = TRUE
        /\ Info = InfoCleared
        /\ SymbolicHandle = "NULL"
        /\ strategy = ClampStrategy("AUTO", m, n, TRUE)
        /\ user_auto_strategy = (m = n)
        /\ for_Paru = FALSE
        /\ Quser_null = TRUE
        /\ Quser = <<>>
        /\ user_ordering = FALSE
        /\ SW_Handle = "NULLPTR"
        /\ Ap_null = FALSE
        /\ Ai_null = FALSE
        /\ A = {}
        /\ Ax_null = TRUE
        /\ Ax = {}
        /\ ret = "running"
        /\ strategy_req = "AUTO"
        /\ ordering_option = "AMD"
        /\ tsym = 0
        /\ tnzd = 0
        /\ n1 = 0
        /\ Cperm1 = <<>>
        /\ Rperm1 = <<>>
        /\ nempty_col = 0
        /\ nempty_row = 0
        /\ is_sym = FALSE
        /\ max_rdeg = 0
        /\ dense_row_threshold = 0
        /\ sym = <<EMPTY, 1>>
        /\ nzdiag = EMPTY
        /\ fixQ = FALSE
        /\ prefer_diagonal = FALSE
        /\ Cperm_init = <<>>
        /\ Rperm_init = <<>>
        /\ do_UMF_analyze = FALSE
        /\ Fr = NoFronts
        /\ InFront = <<>>
        /\ Front_1strow = <<>>
        /\ Diagonal_map = <<>>
        /\ calls = <<>>
        /\ Symbolic = SymbolicNull
        /\ SW = "NULL"
        /\ ptr = {}
        /\ heap = {}

\* what lines 862-910 leave alone
clenrestv == <<argv, SW_Handle, SymbolicHandle, ctlv, sglv, strv, ordv, finv,
               memv, nz_read, nb, Fr_nrows, Fr_ncols, Cdeg, Rdeg, Esize, chnv,
               usage, dlnz, dunz, est, Q1, lmdv,
               relv>>

\* lines 862-903: Clen in double precision, and the return if it is too large
ClenDouble ==
    /\ pc = "clen"
    /\ dClen' = DoubleClen5(nz, n_row, n_col)
    /\ IF ClenTooLarge(dClen')
       THEN /\ Info' = [Info EXCEPT !.STATUS = "out_of_memory"]
            /\ ret' = "out_of_memory"
            /\ pc' = "done"
       ELSE /\ pc' = "clen_int"
            /\ UNCHANGED <<Info, ret>>
    /\ UNCHANGED <<clenrestv, Clen>>

\* lines 905-910: Clen in integers
ClenInteger ==
    /\ pc = "clen_int"
    /\ Clen' = IntegerClen(nz, n_row, n_col)
    /\ pc' = "alloc_symbolic"
    /\ UNCHANGED <<clenrestv, Info, ret, dClen>>

\* ---------------------------------------------------------------------------
\* The slices of the workspace Ci [0 .. Clen-1]
\* ---------------------------------------------------------------------------

\* a slice of Ci: the offset of its first entry and its number of entries
Slice(first, len) == [first |-> first, len |-> len]

\* lines 1076-1084: the three work arrays UMF_singletons is handed, Ci,
\* Ci + nz and Ci + nz + n_row, which together are the first
\* nz + n_row + MAX (n_row, n_col) entries of Ci
SingletonSlices(nzv, m, n) ==
    [Ci1 |-> Slice(0, nzv),
     Ci2 |-> Slice(nzv, m),
     Ci3 |-> Slice(Wrap(nzv + m), MAX(m, n))]

\* line 1634: Clen0 = Clen - (nn+1 + 2*nn + n_col)
Clen0Of(clen, nnv, n) ==
    Wrap(clen - Wrap(Wrap(Wrap(nnv + 1) + Wrap(2 * nnv)) + n))

\* lines 1721-1725: Clen2 = Clen0 - MAX (snz, 1)
Clen2Of(clen0, snz) == Wrap(clen0 - MAX(snz, 1))

\* lines 1634-1638, 1721-1725: Bi, Bp, Link, W and Cperm2 for a pruned matrix
\* of snz entries
AnalyzeSlices(clen, m, n, snz) ==
    LET nnv == MAX(m, n)
        clen0 == Clen0Of(clen, nnv, n)
        Bp == clen0
        Link == Bp + (nnv + 1)
        W == Link + nnv
        Cperm2 == W + nnv
    IN  [Bi |-> Slice(Clen2Of(clen0, snz), MAX(snz, 1)),
         Bp |-> Slice(Bp, nnv + 1),
         Link |-> Slice(Link, nnv),
         W |-> Slice(W, nnv),
         Cperm2 |-> Slice(Cperm2, n)]

\* ---------------------------------------------------------------------------
\* Lines 2183-2580 within a whole call
\* ---------------------------------------------------------------------------

\* Cdeg and Rdeg as UMF_singletons leaves them: the degree of a pivot column
\* (row) in the matrix from which it was peeled, and the degree of any other
\* column (row) in the pruned matrix
SingletonDegrees(M, m, n, k1, cp, rp) ==
    LET rows(k) == Idx(m) \ {rp[q] : q \in Idx(MIN(k, k1))}
        cols(k) == Idx(n) \ {cp[q] : q \in Idx(MIN(k, k1))}
    IN  [Cdeg |-> [j \in Idx(n) |->
                      ColDegree(M, rows(CHOOSE k \in Idx(n) : cp[k] = j), j)],
         Rdeg |-> [i \in Idx(m) |->
                      RowDegree(M, cols(CHOOSE k \in Idx(m) : rp[k] = i), i)]]

\* the n-by-n matrix with one entry per column, on the diagonal
Diagonal(n) == {<<k, k>> : k \in Idx(n)}

\* the argument checks of a call whose matrix is square with n_col entries
DiagonalValidate ==
    /\ Validate
    /\ n_row' = n_col'
    /\ nz' = n_col'

\* the singleton stage of a call whose matrix is diagonal, with the default
\* Control [UMFPACK_SINGLETONS]
DiagonalSingletons == SingletonStage({Diagonal(n_col)}, {TRUE})

\* lines 2183-2580 of a call that goes on to return OK: the values they read.
\* These lines cannot fail, and they write Symbolic->Chain_*, Esize, Cdeg,
\* Rdeg and the estimates only, so they are taken once the result of the call
\* is known.
Resume ==
    /\ pc = "done"
    /\ ret = "OK"
    /\ pc' = "chains"
    /\ nb' \in NbValues
    /\ \E sz \in FrontSizes(Fr) :
        /\ Fr_nrows' = sz.nrows
        /\ Fr_ncols' = sz.ncols
    /\ LET d == SingletonDegrees(A, n_row, n_col, n1, Cperm1, Rperm1)
       IN  /\ Cdeg' = d.Cdeg
           /\ Rdeg' = d.Rdeg
    /\ UNCHANGED <<restv, Esize, chnv, usage, dlnz, dunz, est>>

\* ---------------------------------------------------------------------------
\* Two calls: the Cperm_init of the first is the Quser of the second
\* ---------------------------------------------------------------------------

\* the caller takes the Cperm_init of a call that returned OK with the
\* unsymmetric strategy, frees that Symbolic object, and calls
\* umfpack_*_qsymbolic again on the same matrix with it as Quser
SecondCall ==
    /\ pc = "done"
    /\ ret = "OK"
    /\ Q1 = <<>>
    /\ strategy = "UNSYMMETRIC"
    /\ Q1' = Cperm_init
    /\ pc' = "control"
    /\ for_Paru' = FALSE
    /\ Quser_null' = FALSE
    /\ Quser' = Cperm_init
    /\ user_ordering' = FALSE
    /\ SW_Handle' = "NULLPTR"
    /\ SymbolicHandle' = "NULLPTR"
    /\ Ap_null' = FALSE
    /\ Ai_null' = FALSE
    /\ nz_read' = FALSE
    /\ Ax_null' = TRUE
    /\ Ax' = {}
    /\ Info' = InfoStale
    /\ ret' = "running"
    /\ strategy_req' = "AUTO"
    /\ strategy' = "AUTO"
    /\ user_auto_strategy' = FALSE
    /\ ordering_option' = "AMD"
    /\ tsym' = 0
    /\ tnzd' = 0
    /\ n1' = 0
    /\ Cperm1' = <<>>
    /\ Rperm1' = <<>>
    /\ nempty_col' = 0
    /\ nempty_row' = 0
    /\ is_sym' = FALSE
    /\ max_rdeg' = 0
    /\ dense_row_threshold' = 0
    /\ sym' = <<EMPTY, 1>>
    /\ nzdiag' = EMPTY
    /\ fixQ' = FALSE
    /\ prefer_diagonal' = FALSE
    /\ Cperm_init' = <<>>
    /\ Rperm_init' = <<>>
    /\ do_UMF_analyze' = FALSE
    /\ Fr' = NoFronts
    /\ InFront' = <<>>
    /\ Front_1strow' = <<>>
    /\ Diagonal_map' = <<>>
    /\ calls' = <<>>
    /\ Symbolic' = SymbolicNull
    /\ SW' = "NULL"
    /\ ptr' = {}
    /\ heap' = {}
    /\ UNCHANGED <<n_row, n_col, nz, A, nb, Fr_nrows, Fr_ncols, Cdeg, Rdeg,
                   Esize, chnv, usage, dlnz, dunz, est, clenv, lmdv, relv>>

\* the argument checks; the second call passes the arguments of the first
RoundTripValidate ==
    /\ Validate
    /\ Q1 # <<>> =>
        /\ n_row' = n_row
        /\ n_col' = n_col
        /\ nz' = nz
        /\ pc' = "alloc_symbolic"

\* lines 923-989; the Quser of the second call is Q1
RoundTripAllocSymbolic ==
    /\ AllocSymbolic
    /\ Q1 # <<>> => Quser' = Q1

\* the singleton stage; the second call reads the matrix of the first
RoundTripSingletons ==
    IF Q1 = <<>> THEN Singletons ELSE SingletonStage({A}, BOOLEAN)

\* the strategy stage; Control [UMFPACK_FIXQ] of the second call is positive
RoundTripStrategy ==
    /\ Strategy
    /\ Q1 # <<>> => fixQ'

\* ---------------------------------------------------------------------------
\* combine_ordering on its own (lines 582-631)
\* ---------------------------------------------------------------------------

\* the most columns for which combine_ordering is examined on its own
CombineMaxN == 3

\* the state before a call of combine_ordering for ncols columns, k1
\* singletons and ne empty columns, with the singleton ordering cp and the
\* ordering P of the other columns as the ordering routine wrote it
CombineInit ==
    \E ncols \in 1 .. CombineMaxN :
    \E k1 \in 0 .. ncols :
    \E ne \in 0 .. (ncols - k1) :
    \E cp \in Perms(ncols), P \in Perms(ncols - k1 - ne) :
        /\ pc = "combine"
        /\ NotSimulated
        /\ n_col = ncols
        /\ n_row = ncols
        /\ n1 = k1
        /\ nempty_col = ne
        /\ nempty_row = ne
        /\ Cperm1 = cp
        /\ calls = <<Call("UMF_colamd", TRUE, P)>>
        /\ Cperm_init = Unwritten(ncols)
        /\ nz = 0
        /\ nz_read = TRUE
        /\ Info = InfoCleared
        /\ SymbolicHandle = "NULL"
        /\ strategy = "UNSYMMETRIC"
        /\ user_auto_strategy = FALSE
        /\ for_Paru = FALSE
        /\ Quser_null = TRUE
        /\ Quser = <<>>
        /\ user_ordering = FALSE
        /\ SW_Handle = "NULLPTR"
        /\ Ap_null = FALSE
        /\ Ai_null = FALSE
        /\ A = {}
        /\ Ax_null = TRUE
        /\ Ax = {}
        /\ ret = "running"
        /\ strategy_req = "UNSYMMETRIC"
        /\ ordering_option = "AMD"
        /\ tsym = 0
        /\ tnzd = 0
        /\ Rperm1 = <<>>
        /\ is_sym = FALSE
        /\ max_rdeg = 0
        /\ dense_row_threshold = 0
        /\ sym = <<EMPTY, 1>>
        /\ nzdiag = EMPTY
        /\ fixQ = FALSE
        /\ prefer_diagonal = FALSE
        /\ Rperm_init = <<>>
        /\ do_UMF_analyze = FALSE
        /\ Fr = NoFronts
        /\ InFront = <<>>
        /\ Front_1strow = <<>>
        /\ Diagonal_map = <<>>
        /\ Symbolic = SymbolicHeader
        /\ SW = "SW"
        /\ ptr = {}
        /\ heap = {}

\* the argument Qinv: the inverse of the ordering the routine wrote
QinvArgument == Inverse(calls[1].P, n_col - n1 - nempty_col)

\* lines 582-631: the call combine_ordering (n1, nempty_col, n_col,
\* Cperm_init, Cperm1, Qinv)
CombineOrdering ==
    /\ pc = "combine"
    /\ Cperm_init' = combine_ordering(n1, nempty_col, n_col, Cperm_init, Cperm1,
                                      QinvArgument)
    /\ pc' = "combined"
    /\ UNCHANGED <<argv, outv, ctlv, sglv, strv, do_UMF_analyze, Fr, InFront,
                   calls, finv, memv, nz_read, simv>>

\* ---------------------------------------------------------------------------
\* the leftmost descendant of each front (lines 2181-2202), on its own
\* ---------------------------------------------------------------------------

\* the most pivot columns of a front tree whose walk is examined on its own
LeftmostMaxN == 4

\* the state at line 2181 with the front tree fr; the walk reads nothing else
LeftmostInit ==
    \E nc \in 0 .. LeftmostMaxN :
    \E fr \in FrontData(nc) :
        /\ pc = "leftmost"
        /\ NotSimulated
        /\ Fr = fr
        /\ n_col = nc
        /\ n_row = nc
        /\ n1 = 0
        /\ nempty_col = 0
        /\ nempty_row = 0
        /\ Cperm1 = <<>>
        /\ Rperm1 = <<>>
        /\ calls = <<>>
        /\ Cperm_init = <<>>
        /\ Rperm_init = <<>>
        /\ nz = 0
        /\ nz_read = TRUE
        /\ Info = InfoCleared
        /\ SymbolicHandle = "NULL"
        /\ strategy = "UNSYMMETRIC"
        /\ user_auto_strategy = FALSE
        /\ for_Paru = FALSE
        /\ Quser_null = TRUE
        /\ Quser = <<>>
        /\ user_ordering = FALSE
        /\ SW_Handle = "NULLPTR"
        /\ Ap_null = FALSE
        /\ Ai_null = FALSE
        /\ A = {}
        /\ Ax_null = TRUE
        /\ Ax = {}
        /\ ret = "running"
        /\ strategy_req = "UNSYMMETRIC"
        /\ ordering_option = "AMD"
        /\ tsym = 0
        /\ tnzd = 0
        /\ is_sym = FALSE
        /\ max_rdeg = 0
        /\ dense_row_threshold = 0
        /\ sym = <<EMPTY, 1>>
        /\ nzdiag = EMPTY
        /\ fixQ = FALSE
        /\ prefer_diagonal = FALSE
        /\ do_UMF_analyze = FALSE
        /\ InFront = <<>>
        /\ Front_1strow = <<>>
        /\ Diagonal_map = <<>>
        /\ Symbolic = SymbolicHeader
        /\ SW = "SW"
        /\ ptr = {}
        /\ heap = {}

\* what lines 2181-2202 leave alone
leftmostrestv == <<argv, outv, ctlv, sglv, strv, ordv, finv, memv, nz_read, nb,
                   Fr_nrows, Fr_ncols, Cdeg, Rdeg, Esize, chnv, usage, dlnz,
                   dunz, est, clenv, Q1, relv>>

\* lines 2185-2188: every entry, that of the dummy front included, set to EMPTY
LeftmostClear ==
    /\ pc = "leftmost"
    /\ Front_leftmostdesc' = [i \in 0 .. Fr.nfr |-> EMPTY]
    /\ walk' = [i |-> 0, j |-> EMPTY]
    /\ pc' = "walk_from"
    /\ UNCHANGED leftmostrestv

\* a walk that starts at the parent of front i
WalkFrom_parent ==
    /\ pc = "walk_from"
    /\ IF walk.i < Fr.nfr
       THEN /\ walk' = [walk EXCEPT !.j = Fr.parent[walk.i]]
            /\ pc' = "walk_up"
       ELSE /\ walk' = walk
            /\ pc' = "walked"
    /\ UNCHANGED <<Front_leftmostdesc, leftmostrestv>>

\* lines 2190-2194: the test of the for loop, and j = i
WalkFrom ==
    /\ pc = "walk_from"
    /\ IF walk.i < Fr.nfr
       THEN /\ walk' = [walk EXCEPT !.j = walk.i]
            /\ pc' = "walk_up"
       ELSE /\ walk' = walk
            /\ pc' = "walked"
    /\ UNCHANGED <<Front_leftmostdesc, leftmostrestv>>

\* lines 2195-2201: the test of the while loop and one pass of its body, or
\* the end of the walk from i
WalkUp ==
    /\ pc = "walk_up"
    /\ IF walk.j # EMPTY /\ Front_leftmostdesc[walk.j] = EMPTY
       THEN /\ Front_leftmostdesc' =
                   [Front_leftmostdesc EXCEPT ![walk.j] = walk.i]
            /\ walk' = [walk EXCEPT !.j = Fr.parent[walk.j]]
            /\ pc' = "walk_up"
       ELSE /\ Front_leftmostdesc' = Front_leftmostdesc
            /\ walk' = [walk EXCEPT !.i = walk.i + 1]
            /\ pc' = "walk_from"
    /\ UNCHANGED leftmostrestv

\* ---------------------------------------------------------------------------
\* The release of the workspace (lines 1808-1819, 2645-2661, 2679-2712)
\* ---------------------------------------------------------------------------

\* the workspace arrays the lines of each stage read or write
\* lines 1076-1088: UMF_singletons
SingletonsUses == {"SW.Ci", "SW.Cperm1", "SW.Rperm1", "SW.InvRperm1"}
\* lines 1138-1345: the pruned matrix S and the strategy
StrategyUses == {"SW.Si", "SW.Sp", "SW.Cperm1", "SW.InvRperm1", "SW.Rperm1",
                 "SW.Ci", "SW.Front_npivcol"}
\* lines 1350-1580: the ordering
OrderingUses == {"SW.Cperm1", "SW.InvRperm1", "SW.Rperm1", "SW.Ci",
                 "SW.InFront", "SW.Front_npivcol", "SW.Front_nrows",
                 "SW.Front_ncols", "SW.Front_parent", "SW.Front_cols"}
\* lines 1600-1807: prune_singletons, UMF_transpose, UMF_analyze
AnalyzeUses == {"SW.Si", "SW.Sp", "SW.InvRperm1", "SW.Rperm1", "SW.Ci",
                "SW.Front_npivcol", "SW.Front_nrows", "SW.Front_ncols",
                "SW.Front_parent"}
\* lines 1825-2644: all that follows the release of lines 1816-1818
LateUses == {"SW.Ci", "SW.Rperm1", "SW.InFront", "SW.Front_npivcol",
             "SW.Front_nrows", "SW.Front_ncols", "SW.Front_parent"}

\* lines 2679-2712, called by the caller of umfpack_*_paru_symbolic on the
\* handle the call filled in: the members and the header are freed and the
\* handle is set to NULL
CallerFreesWorkspace ==
    /\ pc = "done"
    /\ SW_Handle = "SW"
    /\ heap' = UMFPACK_paru_free_sw(heap, "SW", ptr)
    /\ ptr' = ptr \ SWMembers
    /\ SW_Handle' = "NULL"
    /\ pc' = "sw_freed"
    /\ UNCHANGED <<argv, SymbolicHandle, Info, ret, ctlv, sglv, strv, ordv,
                   finv, Symbolic, SW, nz_read, simv>>

\* ---------------------------------------------------------------------------
\* The release routines called by the user (umfpack_free_numeric.c lines
\* 17-56, umfpack_qsymbolic.c lines 2679-2712)
\* ---------------------------------------------------------------------------

\* the most calls of the release routines that are examined
MaxReleaseCalls == 3

\* the members of the Numeric object in the order lines 35-52 free them; Rs
\* and Upattern are NULL in some objects
NumericFreeOrder ==
    <<"Numeric.D", "Numeric.Rperm", "Numeric.Cperm", "Numeric.Lpos",
      "Numeric.Lilen", "Numeric.Lip", "Numeric.Upos", "Numeric.Uilen",
      "Numeric.Uip", "Numeric.Rs", "Numeric.Upattern", "Numeric.Memory">>
NumericMembers == {NumericFreeOrder[k] : k \in 1 .. Len(NumericFreeOrder)}
NumericOptional == {"Numeric.Rs", "Numeric.Upattern"}

\* the members of the workspace in the order lines 2693-2705 free them
SWFreeOrder ==
    <<"SW.InvRperm1", "SW.Rs", "SW.Si", "SW.Sp", "SW.Ci", "SW.Front_npivcol",
      "SW.Front_nrows", "SW.Front_ncols", "SW.Front_parent", "SW.Front_cols",
      "SW.Cperm1", "SW.Rperm1", "SW.InFront">>

\* the pointers a run of UMF_free calls over the members in order, then over
\* the header hdr, is handed that are not NULL; p holds the members that are
\* not NULL
Passed(order, hdr, p) ==
    SelectSeq(order, LAMBDA b : b \in p) \o <<hdr>>

\* one call of a release routine: its name, what the handle was, the blocks
\* allocated at the call and the non-NULL pointers given to UMF_free, in order
Release(routine, handle, live, blocks) ==
    [routine |-> routine, handle |-> handle, live |-> live, blocks |-> blocks]

\* the routine without line 55: the handle keeps pointing to the object
UMFPACK_free_numeric_keeps_handle(h, handle, p) ==
    IF handle \in {"NULLPTR", "NULL"}
    THEN [heap |-> h, handle |-> handle, ptr |-> p, blocks |-> <<>>]
    ELSE [heap |-> UMF_free(UMF_free(h, p \cap NumericMembers), {"Numeric"}),
          handle |-> handle,
          ptr |-> p,
          blocks |-> Passed(NumericFreeOrder, "Numeric", p)]

\* umfpack_free_numeric.c lines 17-56: UMFPACK_free_numeric (&Numeric), for
\* the blocks h, the handle and the non-NULL members p
UMFPACK_free_numeric(h, handle, p) ==
    IF handle \in {"NULLPTR", "NULL"}
    THEN [heap |-> h, handle |-> handle, ptr |-> p, blocks |-> <<>>]
    ELSE [heap |-> UMF_free(UMF_free(h, p \cap NumericMembers), {"Numeric"}),
          handle |-> "NULL",
          ptr |-> p \ NumericMembers,
          blocks |-> Passed(NumericFreeOrder, "Numeric", p)]

\* the state in which a caller holds a Numeric handle and a workspace handle:
\* either handle may be NULL or point to NULL; a workspace is as AllocWork or
\* as a successful umfpack_*_paru_symbolic leaves it
FreeInit ==
    \E nh \in {"NULLPTR", "NULL", "Numeric"},
       swh \in {"NULLPTR", "NULL", "SW"} :
    \E opt \in SUBSET NumericOptional,
       swp \in {SWArrays, SWArrays \ SWEarly} :
        LET np == IF nh = "Numeric"
                  THEN (NumericMembers \ NumericOptional) \cup opt ELSE {}
            sp == IF swh = "SW" THEN swp ELSE {}
        IN  /\ pc = "caller"
            /\ nb = 0
            /\ Fr_nrows = <<>>
            /\ Fr_ncols = <<>>
            /\ Cdeg = <<>>
            /\ Rdeg = <<>>
            /\ Esize = <<>>
            /\ Chain_start = <<>>
            /\ Chain_maxrows = <<>>
            /\ Chain_maxcols = <<>>
            /\ maxnrows = 0
            /\ maxncols = 0
            /\ usage = NoUsage
            /\ dlnz = 0
            /\ dunz = 0
            /\ est = NoEstimates
            /\ dClen = 0
            /\ Clen = 0
            /\ Q1 = <<>>
            /\ Front_leftmostdesc = <<>>
            /\ walk = NoWalk
            /\ NumericHandle = nh
            /\ freed = <<>>
            /\ SW_Handle = swh
            /\ heap = np \cup sp
                          \cup (IF nh = "Numeric" THEN {"Numeric"} ELSE {})
                          \cup (IF swh = "SW" THEN {"SW"} ELSE {})
            /\ ptr = np \cup sp
            /\ SW = "NULL"
            /\ Symbolic = SymbolicNull
            /\ SymbolicHandle = "NULLPTR"
            /\ Fr = NoFronts
            /\ n_col = 1
            /\ n_row = 1
            /\ n1 = 0
            /\ nempty_col = 0
            /\ nempty_row = 0
            /\ Cperm1 = <<>>
            /\ Rperm1 = <<>>
            /\ calls = <<>>
            /\ Cperm_init = <<>>
            /\ Rperm_init = <<>>
            /\ nz = 0
            /\ nz_read = FALSE
            /\ Info = InfoStale
            /\ strategy = "AUTO"
            /\ user_auto_strategy = FALSE
            /\ for_Paru = FALSE
            /\ Quser_null = TRUE
            /\ Quser = <<>>
            /\ user_ordering = FALSE
            /\ Ap_null = FALSE
            /\ Ai_null = FALSE
            /\ A = {}
            /\ Ax_null = TRUE
            /\ Ax = {}
            /\ ret = "OK"
            /\ strategy_req = "AUTO"
            /\ ordering_option = "AMD"
            /\ tsym = 0
            /\ tnzd = 0
            /\ is_sym = FALSE
            /\ max_rdeg = 0
            /\ dense_row_threshold = 0
            /\ sym = <<EMPTY, 1>>
            /\ nzdiag = EMPTY
            /\ fixQ = FALSE
            /\ prefer_diagonal = FALSE
            /\ do_UMF_analyze = FALSE
            /\ InFront = <<>>
            /\ Front_1strow = <<>>
            /\ Diagonal_map = <<>>

\* what the release routines leave alone
freerestv == <<argv, SymbolicHandle, Info, ret, ctlv, sglv, strv, ordv, finv,
               Symbolic, SW, nz_read, nb, Fr_nrows, Fr_ncols, Cdeg, Rdeg,
               Esize, chnv, usage, dlnz, dunz, est, clenv, Q1, lmdv>>

\* the caller calls UMFPACK_free_numeric (&Numeric)
FreeNumeric ==
    /\ pc = "caller"
    /\ Len(freed) < MaxReleaseCalls
    /\ LET r == UMFPACK_free_numeric(heap, NumericHandle, ptr)
       IN  /\ heap' = r.heap
           /\ NumericHandle' = r.handle
           /\ ptr' = r.ptr
           /\ freed' = Append(freed, Release("UMFPACK_free_numeric",
                                             NumericHandle, heap, r.blocks))
    /\ UNCHANGED <<pc, SW_Handle, freerestv>>

\* lines 2679-2712: the caller calls UMFPACK_paru_free_sw (&SW)
FreeWorkspace ==
    /\ pc = "caller"
    /\ Len(freed) < MaxReleaseCalls
    /\ IF SW_Handle = "NULLPTR"
       THEN /\ UNCHANGED <<heap, ptr, SW_Handle>>
            /\ freed' = Append(freed, Release("UMFPACK_paru_free_sw",
                                              SW_Handle, heap, <<>>))
       ELSE /\ heap' = UMFPACK_paru_free_sw(heap, SW_Handle, ptr)
            /\ ptr' = IF SW_Handle = "NULL" THEN ptr ELSE ptr \ SWMembers
            /\ SW_Handle' = "NULL"
            /\ freed' = Append(freed, Release("UMFPACK_paru_free_sw",
                                   SW_Handle, heap,
                                   IF SW_Handle = "NULL" THEN <<>>
                                   ELSE Passed(SWFreeOrder, "SW", ptr)))
    /\ UNCHANGED <<pc, NumericHandle, freerestv>>
(* ======================== properties of a call ========================= *)
\* the call has returned UMFPACK_OK
OKReturn == pc = "done" /\ ret = "OK"
\* the argument checks of lines 804-828 have passed
Validated == pc \notin {"call", "control", "validate"} /\ nz_read /\ nz >= 0
\* the columns of A without an entry: Ap [j+1] = Ap [j]
EmptyColumns == {j \in Idx(n_col) : Column(A, j) = {}}

C4_AllocationBalance ==
    pc = "done" =>
        IF ret # "OK" THEN heap = {}
        ELSE SW_Handle # "SW" =>
            LET optional == heap \cap {"Symbolic.Esize", "Symbolic.Diagonal_map"}
            IN  /\ heap = {"Symbolic"} \cup SymbolicPart1 \cup SymbolicPart2
                              \cup optional
                /\ Cardinality(heap) = 12 + Cardinality(optional)
                /\ ("Symbolic.Esize" \in heap) = (esize > 0)
                /\ ("Symbolic.Diagonal_map" \in heap) = (Diagonal_map # <<>>)

\* memory ran out after the ordering, with the workspace and part of the
\* Symbolic object allocated, and everything was freed
C4_Witness ==
    /\ pc = "done"
    /\ ret = "out_of_memory"
    /\ calls # <<>>
    /\ heap = {}

\* C5: the argument checks come in the order argument_missing (Ap, Ai or the
\* handle is null), n_nonpositive (n_row <= 0 or n_col <= 0), invalid_matrix
\* (Ap [n_col] < 0), invalid_permutation (the Quser read by the permutation
\* check, once the allocations before it succeeded, is no permutation of
\* 0..n_col-1), and the first one that fails gives the status; Ap [n_col] is
\* not read before the null and dimension checks pass; and the permutation
\* check comes before the singleton stage and before any ordering routine.
C5_ValidationOrder ==
    LET missing == Ap_null \/ Ai_null \/ SymbolicHandle = "NULLPTR"
        nonpositive == n_row <= 0 \/ n_col <= 0
        badQ == ~Quser_null /\ Quser # <<>> /\ ~IsPermutation(Quser, n_col)
    IN  /\ nz_read => ~missing /\ ~nonpositive
        /\ badQ => pc = "done" /\ calls = <<>> /\ n1 = 0 /\ Cperm1 = <<>>
        /\ pc = "done" =>
            /\ missing <=> ret = "argument_missing"
            /\ (~missing /\ nonpositive) <=> ret = "n_nonpositive"
            /\ (~missing /\ ~nonpositive /\ nz < 0) => ret = "invalid_matrix"
            /\ (~missing /\ ~nonpositive /\ nz >= 0 /\ badQ)
                   <=> ret = "invalid_permutation"

\* a Quser with a repeated entry is rejected before the singleton stage
C5_Witness ==
    /\ pc = "done"
    /\ ret = "invalid_permutation"
    /\ n_col = 2
    /\ Quser[0] = Quser[1]
    /\ A = {}
    /\ calls = <<>>

\* C6: when the strategy is still auto after the singleton stage, the strategy
\* used is symmetric iff sym >= sym_threshold and nzdiag >= nnzdiag_threshold *
\* n2, with n2 = max (n_row, n_col) - n1 - min (nempty_row, nempty_col), and
\* unsymmetric otherwise; the strategy recorded in the Symbolic object and in
\* Info is symmetric or unsymmetric, never auto.
C6_AutoStrategyRule ==
    LET k2 == MAX(n_row, n_col) - n1 - MIN(nempty_row, nempty_col)
        chosen == {"SYMMETRIC", "UNSYMMETRIC"}
    IN  /\ (pc = "ordering" /\ user_auto_strategy /\ is_sym) =>
               /\ strategy \in chosen
               /\ (strategy = "SYMMETRIC") <=>
                      (/\ sym[1] * 10 >= tsym * sym[2]
                       /\ nzdiag * 10 >= tnzd * k2)
        /\ (pc \in {"ordering", "analyze"} \/ OKReturn) =>
               /\ strategy \in chosen
               /\ Symbolic.strategy = strategy
               /\ Info.STRATEGY_USED = strategy
        /\ Symbolic.strategy # "AUTO"
        /\ Info.STRATEGY_USED # "AUTO"

\* the automatic choice fell on unsymmetric for a symmetric pattern whose
\* diagonal has too few nonzero entries
C6_Witness ==
    /\ pc = "ordering"
    /\ user_auto_strategy /\ is_sym
    /\ n2 = 2
    /\ sym[1] * 10 >= tsym * sym[2]
    /\ nzdiag = 1
    /\ tnzd = 9
    /\ strategy = "UNSYMMETRIC"

\* the diagonal entries of the pruned matrix S: pruned row and pruned column
\* index agree
DiagonalOfS == {k \in n1 .. (n_col - 1) : <<Rperm1[k], Cperm1[k]>> \in A}

\* C7: the nzdiag used by the strategy selection counts the structurally
\* present diagonal entries of S; the numerically zero ones are left out only
\* when Ax is given, and without Ax every such entry is counted.
C7_NzdiagCount ==
    (pc = "ordering" /\ nzdiag # EMPTY) =>
        nzdiag = Cardinality({k \in DiagonalOfS :
                                 Ax_null \/ <<Rperm1[k], Cperm1[k]>> \in Ax})

\* C8: a rectangular matrix, or a singleton stage that reports is_sym false,
\* makes the strategy unsymmetric whatever the caller asked for, a request for
\* symmetric included; so whenever the symmetry statistics are computed or the
\* symmetric strategy is chosen, n_row = n_col and nempty_row = nempty_col.
C8_ForcedUnsymmetric ==
    /\ (Validated /\ n_row # n_col) => strategy = "UNSYMMETRIC"
    /\ (pc \in {"strategy", "ordering", "analyze"} \/ OKReturn) =>
           (~is_sym => strategy = "UNSYMMETRIC")
    /\ (pc \in {"ordering", "analyze"}
            /\ (nzdiag # EMPTY \/ sym[1] # EMPTY \/ strategy = "SYMMETRIC")) =>
           /\ n_row = n_col
           /\ nempty_row = nempty_col

\* a square matrix whose pattern the singleton stage found unsymmetric, with
\* the symmetric strategy requested: the strategy used is unsymmetric
C8_Witness ==
    /\ OKReturn
    /\ strategy_req = "SYMMETRIC"
    /\ n_row = n_col
    /\ ~is_sym
    /\ Symbolic.strategy = "UNSYMMETRIC"

\* C9: with Quser given, whatever the ordering option and whether or not a
\* user_ordering callback is given too, no ordering routine is called (AMD,
\* COLAMD, CHOLMOD/METIS, the callback), the ordering reported is given, and
\* the strategy is unsymmetric unless the caller asked for symmetric.
C9_QuserWins ==
    ~Quser_null =>
        /\ calls = <<>>
        /\ pc \in {"validate", "alloc_symbolic", "alloc_work", "singletons",
                   "strategy", "ordering"} => ordering_option = "GIVEN"
        /\ (pc = "analyze" \/ OKReturn) =>
               /\ Symbolic.ordering = "GIVEN"
               /\ Info.ORDERING_USED = "GIVEN"
        /\ (Validated /\ strategy_req # "SYMMETRIC") =>
               /\ strategy = "UNSYMMETRIC"
               /\ Info.STRATEGY_USED \in {"EMPTY", "UNSYMMETRIC"}

\* a call with both Quser and a callback, the strategy left to the routine,
\* returns OK
C9_Witness ==
    /\ OKReturn
    /\ ~Quser_null
    /\ user_ordering
    /\ strategy_req = "AUTO"
    /\ n_col = 2
    /\ Symbolic.ordering = "GIVEN"

\* the user callback and UMF_cholmod are the external ordering
External(c) == c.routine \in {"user_ordering", "UMF_cholmod"}
\* the routine reported failure or wrote no permutation
Failed(c) == ~c.ok \/ ~IsPermutation(c.P, Cardinality(DOMAIN c.P))

\* C10: the external ordering is called at most once in a call; if it reports
\* failure or writes an output that is no permutation, the call returns
\* ordering_failed and no ordering routine is called after it, on the
\* symmetric path and on the unsymmetric path.
C10_OrderingFailureTerminal ==
    /\ Cardinality({i \in DOMAIN calls : External(calls[i])}) <= 1
    /\ \A i \in DOMAIN calls :
           (External(calls[i]) /\ Failed(calls[i])) =>
               /\ pc = "done"
               /\ ret = "ordering_failed"
               /\ i = Len(calls)
    /\ (pc = "done" /\ ret = "ordering_failed") =>
           /\ calls # <<>>
           /\ External(calls[Len(calls)])
           /\ Failed(calls[Len(calls)])

\* on the symmetric path UMF_cholmod returned success with an output that
\* repeats an entry, and the call ended in ordering_failed
C10_Witness ==
    /\ pc = "done"
    /\ ret = "ordering_failed"
    /\ strategy = "SYMMETRIC"
    /\ Len(calls) = 1
    /\ calls[1].routine = "UMF_cholmod"
    /\ calls[1].ok
    /\ DOMAIN calls[1].P = Idx(2)
    /\ calls[1].P[0] = calls[1].P[1]


\* ---------------------------------------------------------------------------
\* Chains and the simulated factorization (SimSpec)
\* ---------------------------------------------------------------------------

\* the chain loop of lines 2208-2283 has run
Chained == pc \in {"element_sizes", "kernel_init", "kernel", "simulated"}

\* the fronts of chain c
ChainFronts(c) == Chain_start[c] .. (Chain_start[c + 1] - 1)

\* C11: the parent of a front is a later front or EMPTY, and the chains
\* partition the fronts: Chain_start runs from 0 to nfr, strictly increasing,
\* over exactly the nchains + 1 entries counted at lines 1825-1834, and a chain
\* ends at front f exactly when the parent of f is not f + 1
C11_ChainsPartition ==
    Chained =>
        /\ \A f \in Idx(Fr.nfr) : Fr.parent[f] > f \/ Fr.parent[f] = EMPTY
        /\ DOMAIN Chain_start = 0 .. nchains(Fr)
        /\ DOMAIN Chain_maxrows = 0 .. nchains(Fr)
        /\ DOMAIN Chain_maxcols = 0 .. nchains(Fr)
        /\ Chain_start[0] = 0
        /\ Chain_start[nchains(Fr)] = Fr.nfr
        /\ \A c \in 1 .. nchains(Fr) : Chain_start[c - 1] < Chain_start[c]
        /\ \A f \in Idx(Fr.nfr) :
               (\E c \in 1 .. nchains(Fr) : Chain_start[c] = f + 1)
                   <=> Fr.parent[f] # f + 1

\* three fronts in two chains: front 0 is a chain of its own because its
\* parent is front 2, and fronts 1 and 2 form the second chain
C11_Witness ==
    /\ Chained
    /\ Fr.nfr = 3
    /\ Fr.parent[0] = 2
    /\ Fr.parent[1] = 2
    /\ Fr.parent[2] = EMPTY
    /\ Chain_start = (0 :> 0) @@ (1 :> 1) @@ (2 :> 3)

\* C12: the row count recorded for a chain is odd and at least the row count
\* of each of its fronts, the largest row count is odd even without fronts,
\* and the column count recorded for a chain is the largest column count of
\* its fronts, not rounded and at least 1
C12_ChainSizes ==
    Chained =>
        /\ maxnrows % 2 = 1
        /\ \A c \in Idx(nchains(Fr)) :
               /\ Chain_maxrows[c] % 2 = 1
               /\ \A f \in ChainFronts(c) : Chain_maxrows[c] >= Fr_nrows[f]
               /\ Chain_maxcols[c] = Max({1} \cup {Fr_ncols[f] : f \in ChainFronts(c)})
               /\ Chain_maxcols[c] >= 1

\* a chain whose largest front has 2 rows and 2 columns is recorded as 3 by 2
C12_Witness ==
    /\ Chained
    /\ Fr.nfr = 2
    /\ Fr.parent[0] = 1
    /\ Fr_nrows[0] = 2
    /\ Fr_nrows[1] = 1
    /\ Fr_ncols[0] = 1
    /\ Fr_ncols[1] = 2
    /\ Chain_maxrows[0] = 3
    /\ Chain_maxcols[0] = 2
    /\ maxnrows = 3

\* ---------------------------------------------------------------------------
\* The diagonal map (Spec)
\* ---------------------------------------------------------------------------

\* C13: a Diagonal_map that is produced sends each new column k to the new
\* row of the diagonal entry of column Cperm_init [k]: it is a permutation and
\* Rperm_init [Diagonal_map [k]] = Cperm_init [k] for every k
C13_DiagonalMapInverse ==
    (OKReturn /\ Diagonal_map # <<>>) =>
        /\ IsPermutation(Diagonal_map, n_col)
        /\ \A k \in Idx(n_col) :
               /\ Diagonal_map[k] \in Idx(n_row)
               /\ Rperm_init[Diagonal_map[k]] = Cperm_init[k]

\* C14: no Diagonal_map is allocated or written for a rectangular matrix,
\* whichever entry point was called, and for a square matrix a successful
\* call produces one exactly when the diagonal is preferred or the call came
\* from umfpack_*_paru_symbolic
C14_DiagonalMapSquareOnly ==
    /\ (n_row # n_col /\ pc \in {"analyze", "done", "crashed"}) =>
           /\ Diagonal_map = <<>>
           /\ "Symbolic.Diagonal_map" \notin heap
    /\ (n_row = n_col /\ OKReturn) =>
           ((Diagonal_map # <<>>) <=> (prefer_diagonal \/ for_Paru))

\* ---------------------------------------------------------------------------
\* The estimates of the simulated factorization (SimSpec)
\* ---------------------------------------------------------------------------

\* the simulation of lines 2355-2580 has run
Simulated == pc = "simulated"

\* C15 as stated: the peak estimate is at least the final head, the final
\* head is at least the usage after the simulated UMF_kernel_init, and that
\* usage is at least 2
C15_EstimateChain ==
    Simulated =>
        /\ est.num_mem_usage_est >= est.num_mem_size_est
        /\ est.num_mem_size_est >= est.num_mem_init_usage
        /\ est.num_mem_init_usage >= 2

\* C15: the peak estimate is at least the final head and at least the usage
\* after the simulated UMF_kernel_init, which is at least 2; the final head,
\* which leaves out the tail, is not compared with the initial usage
C15_PeakDominates ==
    Simulated =>
        /\ est.num_mem_usage_est >= est.num_mem_size_est
        /\ est.num_mem_usage_est >= est.num_mem_init_usage
        /\ est.num_mem_init_usage >= 2

\* two fronts in one chain: the peak is above the initial usage, which is
\* above the final head
C15_Witness ==
    /\ Simulated
    /\ Fr.nfr = 2
    /\ Fr.parent[0] = 1
    /\ est.num_mem_usage_est > est.num_mem_init_usage
    /\ est.num_mem_init_usage > est.num_mem_size_est
    /\ est.num_mem_size_est > 1

\* the pivots of front i
Pivots(i) == MIN(Fr.npivcol[i], Fr_nrows[i])

\* the bound on the nonzeros of L: the diagonal, the entries below the pivot
\* of each singleton, and for each front f (f - 1) / 2 + f r
LnzBound ==
    n_inner
        + SumOver([k \in Idx(n1) |-> Cdeg[k] - 1])
        + SumOver([i \in Idx(Fr.nfr) |->
              (Pivots(i) * (Pivots(i) - 1)) \div 2
                  + Pivots(i) * (Fr_nrows[i] - Pivots(i))])

\* the bound on the nonzeros of U: the diagonal, the entries right of the
\* pivot of each singleton, and for each front f (f - 1) / 2 + f c
UnzBound ==
    n_inner
        + SumOver([k \in Idx(n1) |-> Rdeg[k] - 1])
        + SumOver([i \in Idx(Fr.nfr) |->
              (Pivots(i) * (Pivots(i) - 1)) \div 2
                  + Pivots(i) * (Fr_ncols[i] - Pivots(i))])

\* C19: lunz_bound is lnz + unz - n_inner, where lnz and unz start at n_inner,
\* take Cdeg [k] - 1 and Rdeg [k] - 1 for each singleton k in the final order,
\* and f (f - 1) / 2 + f r and f (f - 1) / 2 + f c for each front, every front
\* once
C19_LunzBound ==
    Simulated =>
        /\ dlnz = LnzBound
        /\ dunz = UnzBound
        /\ est.lunz_bound = LnzBound + UnzBound - n_inner

\* a 2-by-2 matrix with one singleton whose column has an entry below the
\* pivot, and one front with one pivot
C19_Witness ==
    /\ Simulated
    /\ n_row = 2
    /\ n_col = 2
    /\ n1 = 1
    /\ Cdeg[0] = 2
    /\ Rdeg[0] = 1
    /\ Fr.nfr = 1
    /\ Fr_nrows[0] = 2
    /\ Fr_ncols[0] = 2
    /\ dlnz = 4
    /\ dunz = 3
    /\ est.lunz_bound = 5

\* ---------------------------------------------------------------------------
\* The user's ordering (Spec)
\* ---------------------------------------------------------------------------

\* the call has a Quser and its column ordering is settled (lines 1341-1348)
GivenOrdered == ~Quser_null /\ (pc = "analyze" \/ OKReturn)

\* the positions n1 .. n_col-nempty_col-1 of the columns that are neither
\* singletons nor empty
Interior == n1 .. (n_col - nempty_col - 1)

\* Cperm1 is Quser modulo singleton extraction: the interior columns are in
\* the relative order Quser gives them
QuserOrderInCperm1 ==
    \A a \in Interior, b \in Interior :
        a < b => Inverse(Quser, n_col)[Cperm1[a]] < Inverse(Quser, n_col)[Cperm1[b]]

\* C17 as stated: with a Quser the final Cperm_init is Cperm1, Quser modulo
\* singleton extraction, and no later stage changes it
C17_GivenOrderingFinal ==
    GivenOrdered =>
        /\ QuserOrderInCperm1
        /\ \A k \in Idx(n_col) : Cperm_init[k] = Cperm1[k]

\* C17: with a Quser, Cperm_init is Cperm1, Quser modulo singleton extraction,
\* when the ordering stage ends, and still on return if Q is fixed; if Q is
\* not fixed the post-order of UMF_analyze rearranges the interior columns
\* among themselves, and the singleton columns and the empty columns stay
\* where Cperm1 has them
C17_GivenOrderingUpToPostorder ==
    GivenOrdered =>
        /\ QuserOrderInCperm1
        /\ \A k \in Idx(n_col) \ Interior : Cperm_init[k] = Cperm1[k]
        /\ {Cperm_init[k] : k \in Interior} = {Cperm1[k] : k \in Interior}
        /\ (pc = "analyze" \/ fixQ) =>
               \A k \in Idx(n_col) : Cperm_init[k] = Cperm1[k]

\* Quser = [1,0] on a matrix without singletons, Q not fixed: UMF_analyze
\* post-orders the two columns and Cperm_init is no longer Cperm1
C17_Witness ==
    /\ OKReturn
    /\ ~Quser_null
    /\ ~fixQ
    /\ n_col = 2
    /\ n1 = 0
    /\ Quser[0] = 1
    /\ Cperm1[0] = 1
    /\ Cperm_init[0] = 0

\* ---------------------------------------------------------------------------
\* The size of the workspace (ClenSpec)
\* ---------------------------------------------------------------------------

\* the three requirements on Clen, in exact integers
ClenRequirements ==
    {ColamdRecommended5(nz, n_row, n_col) \div 5,
     AnalyzeClen(nz, n_row, n_col),
     AmdClen5(nz, n_row, n_col) \div 5}

\* C18: Clen is first computed in double precision as the largest of the
\* COLAMD, analyze and AMD requirements; if Clen * sizeof (Int) exceeds the
\* largest Int the call returns out_of_memory with nothing allocated and no
\* integer Clen computed; otherwise the integer Clen is the largest of the
\* three requirements, not wrapped
C18_OverflowDiscipline ==
    pc # "clen" =>
        /\ dClen = Max({ColamdRecommended5(nz, n_row, n_col),
                        5 * AnalyzeClen(nz, n_row, n_col),
                        AmdClen5(nz, n_row, n_col)})
        /\ IF dClen * SizeofInt >= 5 * Int_MAX
           THEN /\ pc = "done"
                /\ ret = "out_of_memory"
                /\ Info.STATUS = "out_of_memory"
                /\ heap = {}
                /\ Symbolic = SymbolicNull
                /\ Clen = 0
           ELSE pc # "clen_int" =>
                /\ Clen = Max(ClenRequirements)
                /\ Clen * SizeofInt <= Int_MAX
                /\ 5 * Clen <= dClen

\* a full 3-by-3 matrix needs more bytes than Int_MAX (with 9-bit Int): the
\* call has returned out_of_memory without an allocation
C18_Witness ==
    /\ n_row = n_col
    /\ nz = n_col * n_col
    /\ dClen = DoubleClen5(nz, n_row, n_col)
    /\ dClen * SizeofInt >= 5 * Int_MAX
    /\ pc = "done"
    /\ ret = "out_of_memory"
    /\ heap = {}
    /\ Clen = 0

\* ---------------------------------------------------------------------------
\* A diagonal matrix (DiagonalSpec)
\* ---------------------------------------------------------------------------

\* the call on the n-by-n diagonal matrix returned OK and lines 2183-2580 ran
DiagonalDone ==
    /\ Simulated
    /\ n_row = n_col
    /\ A = Diagonal(n_col)

\* what holds of it whichever way the bounds are counted
DiagonalStructure ==
    /\ ret = "OK"
    /\ n1 = n_col
    /\ nempty_col = 0
    /\ is_sym
    /\ Fr.nfr = 0
    /\ nchains(Fr) = 0
    /\ Chain_start = (0 :> 0)

\* C20: for an n-by-n diagonal matrix the call gives n1 = n, nempty_col = 0,
\* is_sym, nfr = 0, nchains = 0, Cperm_init = Rperm_init = identity, and
\* reports 0 as the bound on the nonzeros of L and of U
C20_DiagonalBoundsZero ==
    DiagonalDone =>
        /\ DiagonalStructure
        /\ Cperm_init = Identity(n_col)
        /\ Rperm_init = Identity(n_col)
        /\ dlnz = 0
        /\ dunz = 0

\* C20, as the code has it: the singletons are listed in the order in which
\* they were peeled, the same for rows and columns, and the bounds on L and
\* on U count the diagonal, so each is n and lunz_bound is n
C20_DiagonalBoundsCountDiagonal ==
    DiagonalDone =>
        /\ DiagonalStructure
        /\ Cperm_init \in Perms(n_col)
        /\ Rperm_init = Cperm_init
        /\ Cperm_init = Cperm1
        /\ dlnz = n_col
        /\ dunz = n_col
        /\ est.lunz_bound = n_col

\* the 2-by-2 diagonal matrix, with the bounds reported
C20_Witness ==
    /\ DiagonalDone
    /\ n_col = 2
    /\ n1 = 2
    /\ Cperm_init = Identity(2)
    /\ dlnz = 2
    /\ dunz = 2

\* ---------------------------------------------------------------------------
\* The round trip (RoundTripSpec)
\* ---------------------------------------------------------------------------

\* the second call has returned
SecondReturned == Q1 # <<>> /\ pc = "done"

\* the singleton stage of the second call peeled the columns that Q1 lists
\* first, in that order
SamePeel == \A k \in Idx(n1) : Cperm1[k] = Q1[k]

UnsymmetricOrdered ==
    /\ pc = "ordering"
    /\ pc' = "analyze"
    /\ strategy = "UNSYMMETRIC"
    /\ Quser_null

\* the routine the ordering stage called last
LastCalled(c) == c[Len(c)].routine

\* C21 as stated: without Quser on the unsymmetric path UMF_analyze is
\* skipped whenever the ordering resolved to amd/colamd, and it always runs,
\* after the external ordering, when the option is user, cholmod, metis or
\* best, also when the pruned matrix has no rows or no columns
C21_AnalyzeByOption ==
    [][UnsymmetricOrdered =>
          IF MetisGuard(ordering_option) \in {"USER", "CHOLMOD", "METIS", "BEST"}
          THEN /\ do_UMF_analyze'
               /\ LastCalled(calls') \in {"user_ordering", "UMF_cholmod"}
          ELSE MetisGuard(ordering_option) # "NONE" => ~do_UMF_analyze']_vars

\* C21: the external ordering is called, and UMF_analyze then always runs,
\* when the option is user, none, cholmod, metis or best and the pruned
\* matrix has a row and a column; in every other case UMF_colamd is called,
\* and UMF_analyze runs after it only if it ignored a dense row or column
\* of a pruned matrix that is not empty
C21_AnalyzeByCall ==
    [][UnsymmetricOrdered =>
          IF /\ MetisGuard(ordering_option)
                    \in {"USER", "NONE", "CHOLMOD", "METIS", "BEST"}
             /\ nrow2 > 0
             /\ ncol2 > 0
          THEN /\ do_UMF_analyze'
               /\ LastCalled(calls') \in {"user_ordering", "UMF_cholmod"}
          ELSE /\ LastCalled(calls') = "UMF_colamd"
               /\ do_UMF_analyze' => (nrow2 > 0 /\ ncol2 > 0)]_vars

\* UMF_colamd ordered a pruned matrix and UMF_analyze is to run after it
C21_Witness ==
    /\ pc = "analyze"
    /\ strategy = "UNSYMMETRIC"
    /\ Quser_null
    /\ calls # <<>>
    /\ LastCalled(calls) = "UMF_colamd"
    /\ do_UMF_analyze
    /\ n_col - n1 - nempty_col > 0

\* ---------------------------------------------------------------------------
\* combine_ordering (CombineSpec)
\* ---------------------------------------------------------------------------

\* C22: for a permutation Cperm1 and an inverse permutation Qinv of the
\* interior, combine_ordering leaves Cperm_init [k] = Cperm1 [k] for the
\* singletons and for the empty columns, Cperm_init [n1 + Qinv [k - n1]] =
\* Cperm1 [k] for the interior; every target n1 + Qinv [.] lies in the
\* interior, no slot is written twice, and the result is a permutation
C22_CombineOrdering ==
    pc = "combined" =>
        LET first == n_col - nempty_col
            Qinv == QinvArgument
        IN  /\ \A k \in Idx(n1) : Cperm_init[k] = Cperm1[k]
            /\ \A k \in n1 .. (first - 1) :
                   /\ n1 + Qinv[k - n1] \in n1 .. (first - 1)
                   /\ Cperm_init[n1 + Qinv[k - n1]] = Cperm1[k]
            /\ \A k \in first .. (n_col - 1) : Cperm_init[k] = Cperm1[k]
            /\ \A j \in n1 .. (first - 1), k \in n1 .. (first - 1) :
                   (Qinv[j - n1] = Qinv[k - n1]) => j = k
            /\ IsPermutation(Cperm_init, n_col)

\* three columns, one singleton, no empty column, and an ordering that swaps
\* the two interior columns
C22_Witness ==
    /\ pc = "combined"
    /\ n_col = 3
    /\ n1 = 1
    /\ nempty_col = 0
    /\ QinvArgument[0] = 1
    /\ Cperm_init[1] = Cperm1[2]
    /\ Cperm_init[2] = Cperm1[1]

\* ---------------------------------------------------------------------------
\* The rows of each front in Rperm_init
\* ---------------------------------------------------------------------------

\* the original rows that InFront assigns to front i (the dummy front is nfr)
RowsOfFront(i) == {r \in Idx(n_row) : InFront[r] = i}

RECURSIVE PathToRoot(_, _)
PathToRoot(fr, d) ==
    IF d = EMPTY THEN {} ELSE {d} \cup PathToRoot(fr, fr.parent[d])

\* the fronts of the subtree rooted at front f
Subtree(fr, f) == {d \in Idx(fr.nfr) : f \in PathToRoot(fr, d)}

\* the walk of lines 2190-2202 has ended
Walked == pc = "walked"

\* C24: for every front tree in which the parent of a front is a later front
\* or EMPTY, the walk ends, and when it has ended Front_leftmostdesc [f] is
\* the smallest front of the subtree rooted at f for every f < nfr (f itself
\* for a leaf) and the entry of the dummy front nfr is EMPTY
C24_LeftmostDescendant ==
    /\ [](Walked =>
            /\ \A f \in Idx(Fr.nfr) :
                   Front_leftmostdesc[f] = Min(Subtree(Fr, f))
            /\ Front_leftmostdesc[Fr.nfr] = EMPTY)
    /\ <>Walked

\* the walk has ended for a tree in which a front f >= 2 with at least two
\* children has front 0 as its leftmost descendant, and in which some front
\* other than front 0 is its own leftmost descendant
C24_Witness ==
    /\ Walked
    /\ \E f \in Idx(Fr.nfr) :
           /\ Cardinality({c \in Idx(Fr.nfr) : Fr.parent[c] = f}) >= 2
           /\ Front_leftmostdesc[f] = 0
           /\ f >= 2
    /\ \E f \in Idx(Fr.nfr) : Front_leftmostdesc[f] = f /\ f > 0

\* ---------------------------------------------------------------------------
\* The link lists of the simulation of UMF_kernel
\* ---------------------------------------------------------------------------

\* the chain that holds front i
ChainOf(i) ==
    CHOOSE chain \in Idx(nchains(Fr)) :
        Chain_start[chain] <= i /\ i < Chain_start[chain + 1]

\* the state of the simulation when front i is reached at line 2514
ReachFront(i) ==
    LET chain == ChainOf(i)
        st == KernelChains(chain)
        dtail == st.dtail + FrontalWorkspace(chain)
    IN  KernelFronts([st EXCEPT !.dtail = dtail,
                                !.dmax = MAX(@, st.dhead + dtail)],
                     Chain_start[chain], i - 1)

\* the fronts of the list that starts at child, in list order
RECURSIVE LinkList(_, _)
LinkList(Link, child) ==
    IF child = EMPTY THEN <<>>
    ELSE <<child>> \o LinkList(Link, Link[child])

\* the children of front i in the front tree
Children(i) == {c \in Idx(Fr.nfr) : Fr.parent[c] = i}

\* the element of front c, as line 2559 adds it to the tail
ElementOf(c) == ELEMENT_SIZE(FrontShape(c).r, FrontShape(c).c)

\* the simulation of UMF_kernel is about to run or has run
KernelReady == pc \in {"kernel", "simulated"}

\* C25: when front i is reached, the list that starts at Link [i] holds
\* exactly the fronts c with Front_parent [c] == i, each once and each with
\* c < i; the pass for front i takes the elements of exactly these fronts off
\* the tail and adds the element of i iff i has a parent; and each chain
\* leaves the tail without the frontal workspace it added
C25_LinkLists ==
    KernelReady =>
        /\ \A i \in Idx(Fr.nfr) :
               LET st == ReachFront(i)
                   list == LinkList(st.Link, st.Link[i])
               IN  /\ {list[k] : k \in 1 .. Len(list)} = Children(i)
                   /\ Len(list) = Cardinality(Children(i))
                   /\ \A k \in 1 .. Len(list) : list[k] < i
                   /\ KernelFront(st, i).dtail =
                          st.dtail
                              - SumOver([c \in Children(i) |-> ElementOf(c)])
                              + (IF Fr.parent[i] # EMPTY THEN ElementOf(i)
                                 ELSE 0)
        /\ \A chain \in Idx(nchains(Fr)) :
               KernelChain(KernelChains(chain), chain).dtail =
                   KernelChains(chain).dtail
                       + SumOver([i \in {x \in Chain_start[chain] ..
                                               (Chain_start[chain + 1] - 1) :
                                             Fr.parent[x] # EMPTY}
                                     |-> ElementOf(i)])
                       - SumOver([c \in {x \in Idx(Fr.nfr) :
                                            /\ Fr.parent[x] >= Chain_start[chain]
                                            /\ Fr.parent[x] < Chain_start[chain + 1]}
                                     |-> ElementOf(c)])
        /\ KernelChains(nchains(Fr)).dtail = KernelStart.dtail

\* the simulation has run over a front tree in which a front has two children
\* with elements of different sizes
C25_Witness ==
    /\ pc = "simulated"
    /\ \E i \in Idx(Fr.nfr) :
           /\ Cardinality(Children(i)) >= 2
           /\ \E c, d \in Children(i) : ElementOf(c) # ElementOf(d)

\* ---------------------------------------------------------------------------
\* The slices of Ci fit Clen
\* ---------------------------------------------------------------------------

\* the entries of Ci a slice covers
Entries(s) == s.first .. (s.first + s.len - 1)

\* the slices of the record ss are pairwise disjoint and lie in Ci [0..clen-1]
DisjointWithin(ss, clen) ==
    /\ \A a \in DOMAIN ss :
           /\ ss[a].first >= 0
           /\ ss[a].len >= 0
           /\ ss[a].first + ss[a].len <= clen
    /\ \A a, b \in DOMAIN ss : a # b => Entries(ss[a]) \cap Entries(ss[b]) = {}

\* the integer Clen has been computed
ClenComputed == pc \notin {"clen", "clen_int"} /\ ret # "out_of_memory"

\* C26: for every (nz, n_row, n_col) that passes the checks, the three slices
\* of the singleton stage are disjoint and fit (Clen >= nz + n_row +
\* MAX (n_row, n_col)); for every number snz <= nz of entries of the pruned
\* matrix, Bi, Bp, Link, W and Cperm2 are pairwise disjoint with Cperm2
\* ending at Ci + Clen, Clen0 >= nz + n_col, Clen0 >= 2*n_col and
\* Clen2 >= n_col; and Clen >= 2*n_row + nfr + 1 for every nfr <= n_col
C26_SlicesFit ==
    ClenComputed =>
        LET nnv == MAX(n_row, n_col)
            clen0 == Clen0Of(Clen, nnv, n_col)
        IN  /\ Clen >= nz + n_row + MAX(n_row, n_col)
            /\ DisjointWithin(SingletonSlices(nz, n_row, n_col), Clen)
            /\ clen0 >= nz + n_col
            /\ clen0 >= 2 * n_col
            /\ \A snz \in 0 .. nz :
                   LET ss == AnalyzeSlices(Clen, n_row, n_col, snz)
                   IN  /\ DisjointWithin(ss, Clen)
                       /\ ss.Cperm2.first + ss.Cperm2.len = Clen
                       /\ ss.Bi.first + ss.Bi.len = ss.Bp.first
                       /\ Clen2Of(clen0, snz) >= n_col
                       /\ ss.Bi.first = Clen2Of(clen0, snz)
            /\ \A nfr \in 0 .. n_col : Clen >= 2 * n_row + nfr + 1

\* Clen has been computed for a matrix with more rows than columns and more
\* entries than columns
C26_Witness ==
    /\ ClenComputed
    /\ Clen > 0
    /\ n_row > n_col
    /\ nz > n_col
    /\ n_col >= 2

\* ---------------------------------------------------------------------------
\* The release of the workspace
\* ---------------------------------------------------------------------------

\* the stages between the allocation of the workspace and the release of
\* lines 1816-1818
WorkspaceStages == {"singletons", "strategy", "ordering", "analyze"}

\* the header and the members of the workspace
WorkspaceBlocks == SWMembers \cup {"SW"}

\* what holds of every step: a stage uses only arrays that are allocated, the
\* stage with the early release uses no array of lines 1816-1818 after them,
\* a successful return has released Si, Sp and Cperm1 and either hands the
\* rest to the caller or has released it, an error return has released
\* everything, and the caller's release frees only blocks that are allocated
ReleaseStep ==
    /\ (pc = "singletons" /\ pc' # pc) => SingletonsUses \subseteq heap
    /\ (pc = "strategy" /\ pc' # pc) => StrategyUses \subseteq heap
    /\ (pc = "ordering" /\ pc' # pc) => OrderingUses \subseteq heap
    /\ (pc = "analyze" /\ pc' # pc) =>
           /\ AnalyzeUses \subseteq heap
           /\ LateUses \subseteq UMF_free(heap, SWEarly)
    /\ (pc = "analyze" /\ pc' = "done" /\ ret' = "OK") =>
           /\ SWEarly \cap heap' = {}
           /\ SWEarly \cap ptr' = {}
           /\ IF SW_Handle' = "SW"
              THEN /\ (SWArrays \ SWEarly) \cup {"SW"} \subseteq heap'
                   /\ SWArrays \ SWEarly \subseteq ptr'
              ELSE WorkspaceBlocks \cap heap' = {}
    /\ (pc' = "done" /\ ret' # "OK") => heap' = {} /\ ptr' = {}
    /\ (pc = "done" /\ pc' = "sw_freed") =>
           /\ ptr \cap SWMembers \subseteq heap
           /\ "SW" \in heap
           /\ WorkspaceBlocks \cap heap' = {}
           /\ heap \ heap' = (SWArrays \ SWEarly) \cup {"SW"}

\* C27: Si, Sp and Cperm1 are released after S5 and before S6 and the rest of
\* the workspace just before a successful return, unless it is handed to the
\* caller of umfpack_*_paru_symbolic; no stage uses a workspace array that has
\* been released; and no block is released twice: every pointer the workspace
\* and the Symbolic object hold is NULL or points to an allocated block, also
\* when the caller releases the workspace it was handed and when an error
\* occurs after the first release
C27_ReleaseDiscipline ==
    /\ [](ptr \subseteq heap)
    /\ [](pc \in WorkspaceStages => WorkspaceBlocks \ {"SW.Rs"} \subseteq heap)
    /\ [][ReleaseStep]_vars

\* the caller of umfpack_*_paru_symbolic has released the workspace it was
\* handed: what is left allocated is the Symbolic object
C27_Witness ==
    /\ pc = "sw_freed"
    /\ for_Paru
    /\ SW_Handle = "NULL"
    /\ "Symbolic" \in heap
    /\ heap \cap WorkspaceBlocks = {}

\* ---------------------------------------------------------------------------
\* The work arrays handed to AMD_2
\* ---------------------------------------------------------------------------

\* lines 169-182 of do_amd_1: Head, Elen and Degree are slices of the
\* workspace S if there is no user ordering function, and NULL if there is one
HeadElenDegree(uo) == IF uo THEN "NULL" ELSE "S"

\* the calls of AMD_2 made so far
AmdCalls == {k \in 1 .. Len(calls) : calls[k].routine = "AMD_2"}

\* C28: whenever the symmetric strategy calls AMD_2, the arrays Head, Elen
\* and Degree it is handed are slices of the workspace and not NULL, whatever
\* the ordering option and whether or not there is a user ordering function
C28_AmdWorkArrays ==
    \A k \in AmdCalls : HeadElenDegree(user_ordering) # "NULL"

\* ---------------------------------------------------------------------------
\* The empty rows and columns at the diagonal map
\* ---------------------------------------------------------------------------

\* a step of the last stage that passes the test of line 2109 on a square
\* matrix and gets past the allocation of line 2116
EntersDiagonalMap ==
    /\ pc = "analyze"
    /\ prefer_diagonal \/ for_Paru
    /\ n_row = n_col
    /\ ret' = "OK" \/ pc' = "crashed"

\* C29: whenever the diagonal map step is entered for a square matrix, what
\* line 2113 asserts holds: nempty_row == nempty_col and nempty ==
\* nempty_row, with nempty as line 1105 computed it and nempty_row as it is
\* at line 2113
C29_EmptyCountsAgree ==
    [][EntersDiagonalMap =>
           /\ nempty_row' = nempty_col'
           /\ nempty = nempty_row']_vars

\* ---------------------------------------------------------------------------
\* The release routines
\* ---------------------------------------------------------------------------

\* the entries of a sequence
ElementsOf(s) == {s[k] : k \in 1 .. Len(s)}

\* the members and the header of the object a release routine is for
ObjectBlocks(routine) ==
    IF routine = "UMFPACK_free_numeric" THEN NumericMembers \cup {"Numeric"}
    ELSE SWMembers \cup {"SW"}

\* C30: a call of UMFPACK_free_numeric or UMFPACK_paru_free_sw with a NULL
\* handle, or with a handle that points to NULL, passes nothing to UMF_free;
\* a call with a handle to an object passes every non-NULL member and the
\* header to UMF_free once, each allocated at that point, and leaves the
\* handle pointing to NULL; so a later call with the same handle passes
\* nothing to UMF_free
C30_ReleaseRoutines ==
    /\ \A k \in 1 .. Len(freed) :
           LET c == freed[k]
           IN  IF c.handle \in {"NULLPTR", "NULL"}
               THEN c.blocks = <<>>
               ELSE /\ ElementsOf(c.blocks) = c.live \cap ObjectBlocks(c.routine)
                    /\ Len(c.blocks) = Cardinality(ElementsOf(c.blocks))
                    /\ c.blocks[Len(c.blocks)] = c.handle
                    /\ \A j \in (k + 1) .. Len(freed) :
                           freed[j].routine = c.routine =>
                               /\ freed[j].handle = "NULL"
                               /\ freed[j].blocks = <<>>
                               /\ freed[j].live \cap ObjectBlocks(c.routine) = {}
    /\ \A j, k \in 1 .. Len(freed) :
           j # k => ElementsOf(freed[j].blocks) \cap ElementsOf(freed[k].blocks) = {}
    /\ (\E k \in 1 .. Len(freed) : freed[k].routine = "UMFPACK_free_numeric") =>
           /\ NumericHandle \in {"NULLPTR", "NULL"}
           /\ heap \cap ObjectBlocks("UMFPACK_free_numeric") = {}
    /\ (\E k \in 1 .. Len(freed) : freed[k].routine = "UMFPACK_paru_free_sw") =>
           /\ SW_Handle \in {"NULLPTR", "NULL"}
           /\ heap \cap ObjectBlocks("UMFPACK_paru_free_sw") = {}
    /\ \A k \in 1 .. Len(freed) :
           freed[k].handle = "NULLPTR" =>
               IF freed[k].routine = "UMFPACK_free_numeric"
               THEN NumericHandle = "NULLPTR" ELSE SW_Handle = "NULLPTR"
    /\ ptr \subseteq heap

\* UMFPACK_free_numeric was called twice on a handle to an object with Rs and
\* without Upattern, the second call freeing nothing, and
\* UMFPACK_paru_free_sw released a workspace whose Si, Sp and Cperm1 were
\* NULL already
C30_Witness ==
    /\ Len(freed) = 3
    /\ freed[1].routine = "UMFPACK_free_numeric"
    /\ freed[1].handle = "Numeric"
    /\ Len(freed[1].blocks) = 12
    /\ "Numeric.Rs" \in ElementsOf(freed[1].blocks)
    /\ freed[2].routine = "UMFPACK_free_numeric"
    /\ freed[2].handle = "NULL"
    /\ freed[2].blocks = <<>>
    /\ freed[3].routine = "UMFPACK_paru_free_sw"
    /\ freed[3].handle = "SW"
    /\ Len(freed[3].blocks) = 10
    /\ heap = {}

Next ==
    \/ UMFPACK_qsymbolic
    \/ UMFPACK_fsymbolic
    \/ UMFPACK_paru_symbolic
    \/ GetControl
    \/ Validate
    \/ AllocSymbolic
    \/ AllocWork
    \/ Singletons
    \/ Strategy
    \/ Ordering
    \/ Finalize

Spec == Init /\ [][Next]_vars

SimNext ==
    \/ Chains
    \/ ElementSizes
    \/ KernelInit
    \/ Kernel

SimSpec == SimInit /\ [][SimNext]_vars

ChainSpec == ChainInit /\ [][SimNext]_vars

ClenNext ==
    \/ ClenDouble
    \/ ClenInteger
    \/ AllocSymbolic

ClenSpec == ClenInit /\ [][ClenNext]_vars

DiagonalNext ==
    \/ UMFPACK_qsymbolic
    \/ UMFPACK_fsymbolic
    \/ UMFPACK_paru_symbolic
    \/ GetControl
    \/ DiagonalValidate
    \/ AllocSymbolic
    \/ AllocWork
    \/ DiagonalSingletons
    \/ Strategy
    \/ Ordering
    \/ Finalize
    \/ Resume
    \/ Chains
    \/ ElementSizes
    \/ KernelInit
    \/ Kernel

DiagonalSpec == Init /\ [][DiagonalNext]_vars

RoundTripNext ==
    \/ UMFPACK_qsymbolic
    \/ UMFPACK_fsymbolic
    \/ UMFPACK_paru_symbolic
    \/ GetControl
    \/ RoundTripValidate
    \/ RoundTripAllocSymbolic
    \/ AllocWork
    \/ RoundTripSingletons
    \/ RoundTripStrategy
    \/ Ordering
    \/ Finalize
    \/ SecondCall

RoundTripSpec == Init /\ [][RoundTripNext]_vars

CombineSpec == CombineInit /\ [][CombineOrdering]_vars

LeftmostNext ==
    \/ LeftmostClear
    \/ WalkFrom
    \/ WalkUp

\* the walk is the running program: a step that can be taken is taken
LeftmostSpec ==
    LeftmostInit /\ [][LeftmostNext]_vars /\ WF_vars(LeftmostNext)

ReleaseNext ==
    \/ UMFPACK_qsymbolic
    \/ UMFPACK_fsymbolic
    \/ UMFPACK_paru_symbolic
    \/ GetControl
    \/ Validate
    \/ AllocSymbolic
    \/ AllocWork
    \/ Singletons
    \/ Strategy
    \/ Ordering
    \/ Finalize
    \/ CallerFreesWorkspace

ReleaseSpec == Init /\ [][ReleaseNext]_vars

FreeNext ==
    \/ FreeNumeric
    \/ FreeWorkspace

FreeSpec == FreeInit /\ [][FreeNext]_vars
=============================================================================
